---- MODULE Spec2Model ----
(***************************************************************************)
(* A model of atropos/io/seqio.py: the readers of FASTA, FASTA+QUAL,       *)
(* paired and interleaved sequence files, the colorspace record            *)
(* constructors and the content autodetection of open_reader.              *)
(*                                                                         *)
(* A Python string is a sequence of one-character strings, so that         *)
(* strip(), split(), slicing and startswith() are computed as Python       *)
(* computes them.  A line of a file carries its line break.                *)
(***************************************************************************)
EXTENDS Integers, Sequences, FiniteSets, TLC

VARIABLES
    reader,      \* the class whose traversal (or constructor) is being run
    pc,          \* position of the traversal in the code
    file1,       \* first input: the items its iterator delivers, in order
    file2,       \* second input (file2 or qualfile)
    pos1,        \* number of items consumed from file1
    pos2,        \* number of items consumed from file2
    first_line,  \* FileWithPrependedLine.first_line; None when file1 is not wrapped
    delivered,   \* FileWithPrependedLine.__iter__ has yielded first_line
    iterations,  \* number of times iter() has been called again on the reader
    name,        \* FastaReader.__iter__: local `name`
    seq,         \* FastaReader.__iter__: local `seq`
    idx,         \* FastaReader.__iter__: number of lines enumerate() has delivered
    delimiter,   \* FastaReader._delimiter
    read1,       \* pairing readers: local `read1` (FastaQualReader: `fastaread`)
    read2,       \* pairing readers: local `read2` (FastaQualReader: `qualread`)
    calls1,      \* number of next() calls made on the first iterator
    calls2,      \* number of next() calls made on the second iterator
    fileformat,  \* open_reader: local `fileformat`
    observed,    \* the lines the reader has been handed by its file, in order
    call,        \* the arguments of the last record constructor call
    obj,         \* the record that call returned, None if it raised
    yielded,     \* what the traversal has yielded to its caller, in order
    error        \* the exception raised, NoError if none

vars == <<reader, pc, file1, file2, pos1, pos2, first_line, delivered,
          iterations, name, seq, idx, delimiter, read1, read2, calls1, calls2,
          fileformat, observed, call, obj, yielded, error>>

\* the variables of each part of the program
fastaVars == <<name, seq, idx, delimiter>>
wrapVars == <<first_line, delivered, iterations>>
pairVars == <<read1, read2, calls1, calls2>>
ctorVars == <<call, obj>>

-----------------------------------------------------------------------------
(* Bounds of the model *)

MaxLines == 3

MaxReads == 3

MaxSeqLen == 3

\* the most calls of close() on one reader
MaxCloses == 2

-----------------------------------------------------------------------------
(* Python values *)

\* Python's None; no string of the model equals it (strings hold single characters).
None == <<"None">>

NoError == [type |-> "none"]

\* None where a record is expected
NoRecord == [none |-> TRUE]

\* None where a format name is expected
NoFormat == "None"

\* the code points, other than those of " ", "\n", "\r" and "\t", of the
\* characters c with c.isspace(): the blanks of str.strip() and str.split()
BlankCodes ==
    {11, 12, 28, 29, 30, 31, 133, 160, 5760, 8232, 8233, 8239, 8287, 12288}
        \cup (8192..8202)

\* a character that does not print is written by its name, chr(n)
Whitespace ==
    {" ", "\n", "\r", "\t"} \cup {"chr(" \o ToString(n) \o ")" : n \in BlankCodes}

\* str.lstrip()
RECURSIVE LStrip(_)
LStrip(s) ==
    IF s # <<>> /\ Head(s) \in Whitespace THEN LStrip(Tail(s)) ELSE s

\* str.rstrip()
RECURSIVE RStrip(_)
RStrip(s) ==
    IF s # <<>> /\ s[Len(s)] \in Whitespace
    THEN RStrip(SubSeq(s, 1, Len(s) - 1))
    ELSE s

Strip(s) == RStrip(LStrip(s))

\* the leading run of non-whitespace characters of s
RECURSIVE TakeWord(_)
TakeWord(s) ==
    IF s = <<>> \/ Head(s) \in Whitespace THEN <<>>
    ELSE <<Head(s)>> \o TakeWord(Tail(s))

\* str.split(): the maximal runs of non-whitespace characters, in order
RECURSIVE Split(_)
Split(s) ==
    LET t == LStrip(s)
        w == TakeWord(t)
    IN  IF t = <<>> THEN <<>>
        ELSE <<w>> \o Split(SubSeq(t, Len(w) + 1, Len(t)))

\* delim.join(parts)
RECURSIVE Join(_, _)
Join(parts, delim) ==
    IF parts = <<>> THEN <<>>
    ELSE IF Len(parts) = 1 THEN parts[1]
    ELSE parts[1] \o delim \o Join(Tail(parts), delim)

Min(a, b) == IF a < b THEN a ELSE b

\* s[1:]
Rest(s) == IF s = <<>> THEN <<>> ELSE Tail(s)

\* s[0:1]
First(s) == IF s = <<>> THEN <<>> ELSE <<Head(s)>>

\* s[:-1]
DropLast(s) == IF s = <<>> THEN <<>> ELSE SubSeq(s, 1, Len(s) - 1)

\* s[-1:]
Last(s) == IF s = <<>> THEN <<>> ELSE <<s[Len(s)]>>

\* str.startswith(c) for a one-character c
StartsWith(s, c) == s # <<>> /\ Head(s) = c

\* str.endswith(c) for a one-character c
EndsWith(s, c) == s # <<>> /\ s[Len(s)] = c

\* all sequences over S of length at most n
RECURSIVE SeqsUpTo(_, _)
SeqsUpTo(S, n) ==
    IF n = 0 THEN {<<>>}
    ELSE LET shorter == SeqsUpTo(S, n - 1)
         IN  shorter \cup {Append(s, x) : s \in {t \in shorter : Len(t) = n - 1}, x \in S}

-----------------------------------------------------------------------------
(* Input files *)

\* The lines an open text file delivers: every line ends in a line break,
\* except possibly the last one.
FileLines(bodies, eol) ==
    [i \in 1..Len(bodies) |->
        IF i < Len(bodies) \/ eol THEN bodies[i] \o <<"\n">> ELSE bodies[i]]

\* Line contents of the FASTA files of the model: two headers (one of them
\* between a form feed and a blank), a comment, a blank line and two
\* sequence lines.
FastaBodies ==
    { <<">", "a">>, <<"chr(12)", ">", "b", " ">>, <<"#", "c">>, <<>>,
      <<"A", "C">>, <<" ", "G">> }

\* Text files of at most n lines; a file never ends in an empty unterminated line.
TextFiles(bodies, n) ==
    { FileLines(b, eol) : b \in SeqsUpTo(bodies, n), eol \in BOOLEAN }
        \ { f \in { FileLines(b, FALSE) : b \in SeqsUpTo(bodies, n) } :
                f # <<>> /\ f[Len(f)] = <<>> }

-----------------------------------------------------------------------------
(* Exceptions *)

FormatError(m, a) == [type |-> "FormatError", msg |-> m, args |-> a]

UnknownFileType(a) == [type |-> "UnknownFileType", msg |-> "File format is unknown", args |-> a]

IndexError == [type |-> "IndexError", msg |-> "list index out of range", args |-> <<>>]

Raised(e) == e.type # "none"

-----------------------------------------------------------------------------
(* Records *)

\* the fields of a Sequence object that the readers set
Record(n, s, q, n2) == [name |-> n, sequence |-> s, qualities |-> q, name2 |-> n2]

\* Sequence.__init__: stores the fields and validates that qualities, when
\* present, are as long as the sequence.  Returns the record, or the error raised.
Sequence(n, s, q, n2) ==
    IF q # None /\ Len(q) # Len(s)
    THEN [error |-> FormatError("length of quality sequence and length of read do not match", <<n>>),
          obj |-> NoRecord]
    ELSE [error |-> NoError, obj |-> Record(n, s, q, n2)]

-----------------------------------------------------------------------------
(* FileWithPrependedLine *)

\* __init__: `if not line.endswith('\n'): line += '\n'`
PrependedLine(line) == IF EndsWith(line, "\n") THEN line ELSE line \o <<"\n">>

\* The reader's file is exhausted (file1 is wrapped when first_line is set).
FileAtEnd == (first_line = None \/ delivered) /\ pos1 = Len(file1)

\* __iter__: first_line first, then the lines of the wrapped file
NextLine == IF first_line # None /\ ~delivered THEN first_line ELSE file1[pos1 + 1]

\* the effect of handing NextLine to the reader
TakeLine ==
    /\ IF first_line # None /\ ~delivered
       THEN delivered' = TRUE /\ pos1' = pos1
       ELSE delivered' = delivered /\ pos1' = pos1 + 1
    /\ observed' = Append(observed, NextLine)
    /\ UNCHANGED <<file1, first_line, iterations>>

-----------------------------------------------------------------------------
(* FastaReader.__iter__ *)

\* The generator's state: its locals, what it has yielded and what it raised.
FastaStart == [name |-> None, seq |-> <<>>, i |-> 0, out |-> <<>>, error |-> NoError]

\* `yield self.sequence_class(name, self._delimiter.join(seq), None)`
FastaYield(g, delim) ==
    LET made == Sequence(g.name, Join(g.seq, delim), None, <<>>)
    IN  IF Raised(made.error) THEN [g EXCEPT !.error = made.error]
        ELSE [g EXCEPT !.out = Append(@, made.obj)]

LineNumberFromZero(g) == g.i

\* the number enumerate() gives the line being read, plus one
LineNumber(g) == g.i + 1

\* One pass through the body of `for i, line in enumerate(self._file)`.
FastaLine(g, raw, delim) ==
    LET line == Strip(raw)
        read == [g EXCEPT !.i = @ + 1]
    IN  IF line = <<>> THEN read
        ELSE IF Head(line) = ">"
        THEN LET emitted == IF g.name # None THEN FastaYield(read, delim) ELSE read
             IN  IF Raised(emitted.error) THEN emitted
                 ELSE [emitted EXCEPT !.name = Rest(line), !.seq = <<>>]
        ELSE IF Head(line) = "#" THEN read
        ELSE IF g.name # None THEN [read EXCEPT !.seq = Append(@, line)]
        ELSE [read EXCEPT !.error =
                  FormatError("Expected '>' at beginning of FASTA record",
                              <<LineNumber(g), line>>)]

FastaLastDropped(g, delim) == g

\* After the loop: `if name is not None: yield ...`
FastaLast(g, delim) == IF g.name # None THEN FastaYield(g, delim) ELSE g

\* The whole traversal of a file: the records yielded and the error raised, if any.
RECURSIVE FastaRun(_, _, _)
FastaRun(g, lines, delim) ==
    IF Raised(g.error) THEN g
    ELSE IF lines = <<>> THEN FastaLast(g, delim)
    ELSE FastaRun(FastaLine(g, Head(lines), delim), Tail(lines), delim)

FastaIter(lines, delim) == FastaRun(FastaStart, lines, delim)

\* the generator state held in the variables
FastaState == [name |-> name, seq |-> seq, i |-> idx, out |-> yielded, error |-> error]

FastaSet(g) ==
    /\ name' = g.name
    /\ seq' = g.seq
    /\ idx' = g.i
    /\ yielded' = g.out
    /\ error' = g.error
    /\ pc' = IF Raised(g.error) THEN "error" ELSE pc

\* the reader takes the next line of its file
\* the line closes a record: a header, while a record is open
ClosesRecord(g, raw) == g.name # None /\ StartsWith(Strip(raw), ">")

\* The loop takes a line.  On a header that closes a record the generator
\* stops at the `yield` of the record, its locals still those of the record:
\* `name = line[1:]` and `seq = []` wait for the caller to ask again.
FastaReadLine ==
    /\ reader = "FastaReader"
    /\ pc = "iter"
    /\ ~FileAtEnd
    /\ LET g == FastaLine(FastaState, NextLine, delimiter)
       IN  IF ClosesRecord(FastaState, NextLine) /\ ~Raised(g.error)
           THEN /\ yielded' = g.out
                /\ idx' = g.i
                /\ pc' = "yield"
                /\ UNCHANGED <<name, seq, error>>
           ELSE FastaSet(g)
    /\ TakeLine
    /\ UNCHANGED <<reader, file2, pos2, delimiter, pairVars, fileformat, ctorVars>>

\* the caller asks for the next record: the generator goes on after the
\* `yield`, with the header it is on
FastaResume ==
    /\ reader = "FastaReader"
    /\ pc = "yield"
    /\ name' = Rest(Strip(observed[Len(observed)]))
    /\ seq' = <<>>
    /\ pc' = "iter"
    /\ UNCHANGED <<reader, file1, file2, pos1, pos2, wrapVars, idx, delimiter,
                   pairVars, fileformat, observed, ctorVars, yielded, error>>

\* the file is exhausted: the record that is open is yielded, and the
\* generator stops at this last `yield`; without an open record it returns
FastaEnd ==
    /\ reader = "FastaReader"
    /\ pc = "iter"
    /\ FileAtEnd
    /\ LET g == FastaLast(FastaState, delimiter)
       IN  /\ name' = g.name
           /\ seq' = g.seq
           /\ idx' = g.i
           /\ yielded' = g.out
           /\ error' = g.error
           /\ pc' = IF Raised(g.error) THEN "error"
                    ELSE IF name # None THEN "last" ELSE "done"
    /\ UNCHANGED <<reader, file1, file2, pos1, pos2, wrapVars, delimiter,
                   pairVars, fileformat, observed, ctorVars>>

\* the caller asks again after the last record: the generator returns
FastaReturn ==
    /\ reader = "FastaReader"
    /\ pc = "last"
    /\ pc' = "done"
    /\ UNCHANGED <<reader, file1, file2, pos1, pos2, wrapVars, fastaVars,
                   pairVars, fileformat, observed, ctorVars, yielded, error>>

\* the variables a traversal does not use
Idle ==
    /\ pos1 = 0
    /\ pos2 = 0
    /\ first_line = None
    /\ delivered = FALSE
    /\ iterations = 0
    /\ name = None
    /\ seq = <<>>
    /\ idx = 0
    /\ read1 = NoRecord
    /\ read2 = NoRecord
    /\ calls1 = 0
    /\ calls2 = 0
    /\ fileformat = NoFormat
    /\ observed = <<>>
    /\ call = NoRecord
    /\ obj = NoRecord
    /\ yielded = <<>>
    /\ error = NoError

\* the lines of a FASTA file, by what the loop body takes them for
IsHeader(raw) == StartsWith(Strip(raw), ">")

IsComment(raw) == StartsWith(Strip(raw), "#")

IsBlank(raw) == Strip(raw) = <<>>

IsData(raw) == ~IsBlank(raw) /\ ~IsHeader(raw) /\ ~IsComment(raw)

\* FastaReader(file, keep_linebreaks) on an open text file
InitFasta ==
    /\ reader = "FastaReader"
    /\ pc = "iter"
    /\ file1 \in TextFiles(FastaBodies, MaxLines)
    /\ delimiter \in {<<>>, <<"\n">>}
    /\ file2 = <<>>
    /\ Idle

NextFasta ==
    \/ FastaReadLine
    \/ FastaResume
    \/ FastaEnd
    \/ FastaReturn

SpecFasta == InitFasta /\ [][NextFasta]_vars

-----------------------------------------------------------------------------
(* What a FASTA file holds, stated on its lines *)

Indices(f) == [k \in 1..Len(f) |-> k]

\* the first header after line k, or the line after the last
NextHeader(f, k) ==
    LET later == {j \in (k + 1)..Len(f) : IsHeader(f[j])}
    IN  IF later = {} THEN Len(f) + 1
        ELSE CHOOSE j \in later : \A m \in later : j <= m

\* the sequence lines between header k and the next header, stripped, in order
DataLines(f, k) ==
    LET at == SelectSeq(Indices(f), LAMBDA j : k < j /\ j < NextHeader(f, k) /\ IsData(f[j]))
    IN  [n \in 1..Len(at) |-> Strip(f[at[n]])]

\* one record per header line, in the order of the headers
HeaderRecords(f, delim) ==
    LET at == SelectSeq(Indices(f), LAMBDA j : IsHeader(f[j]))
    IN  [n \in 1..Len(at) |->
            Record(Rest(Strip(f[at[n]])), Join(DataLines(f, at[n]), delim), None, <<>>)]

\* the sequence lines that no header precedes
Orphans(f) == {k \in 1..Len(f) : IsData(f[k]) /\ \A j \in 1..(k - 1) : ~IsHeader(f[j])}

FirstOrphan(f) == CHOOSE k \in Orphans(f) : \A m \in Orphans(f) : k <= m

\* the lines the reader has been handed so far
LinesRead == SubSeq(file1, 1, pos1)

\* C5: FastaReader yields one record per header line, in input order, named by
\* the header text and holding the join of the sequence lines up to the next
\* header (with the reader's delimiter), without qualities; the record open at
\* the end of the input is emitted.  At every point of the traversal the
\* records yielded are those of the headers read, the open one excepted.
C5_OneRecordPerHeader ==
    reader = "FastaReader" =>
        LET closed == HeaderRecords(LinesRead, delimiter)
        IN  /\ pc \in {"last", "done"} =>
                  pos1 = Len(file1) /\ yielded = HeaderRecords(file1, delimiter)
            /\ pc = "iter" => yielded = IF name # None THEN DropLast(closed) ELSE closed
            /\ pc = "yield" => name # None /\ yielded = DropLast(closed)
            /\ pc = "error" => yielded = closed
            /\ \A n \in 1..Len(yielded) : yielded[n].qualities = None

\* two sequence lines joined with line breaks into the record emitted at the end
C5_Witness ==
    /\ reader = "FastaReader"
    /\ pc = "done"
    /\ delimiter = <<"\n">>
    /\ Len(yielded) = 1
    /\ Len(seq) = 2

\* C6: FastaReader raises a FormatError exactly when a sequence line comes
\* before the first header; the error gives the 1-based number of that line
\* and its content, and nothing has been yielded.
C6_OrphanLineRaises ==
    reader = "FastaReader" =>
        /\ pc = "error" =>
              /\ Orphans(file1) # {}
              /\ error = FormatError("Expected '>' at beginning of FASTA record",
                                     <<FirstOrphan(file1), Strip(file1[FirstOrphan(file1)])>>)
              /\ pos1 = FirstOrphan(file1)
              /\ yielded = <<>>
        /\ pc \in {"last", "done"} => Orphans(file1) = {}
        /\ pc \in {"iter", "yield"} => \A k \in Orphans(file1) : pos1 < k

\* the error names line 3, after a blank line and a comment
C6_Witness ==
    /\ reader = "FastaReader"
    /\ pc = "error"
    /\ error.args[1] = 3

-----------------------------------------------------------------------------
(* open_reader: detection of the format from the content of file1 *)

\* Line contents of the files whose format is detected: those of the FASTA
\* files and a FASTQ header.
DetectBodies == FastaBodies \cup { <<"@", "r">> }

FormatOfLineSwapped(line) ==
    IF StartsWith(line, ">") THEN "fastq"
    ELSE IF StartsWith(line, "@") THEN "fasta"
    ELSE NoFormat

\* `if line.startswith('>') ... elif line.startswith('@') ...`
FormatOfLine(line) ==
    IF StartsWith(line, ">") THEN "fasta"
    ELSE IF StartsWith(line, "@") THEN "fastq"
    ELSE NoFormat

WithoutPushBack(line) == None

\* `file1 = FileWithPrependedLine(file1, line)`: the first_line of the wrapper
PushBack(line) == PrependedLine(line)

\* The dispatch on the resolved format of a single-end, non-colorspace file:
\* the reader class returned, or the UnknownFileType raised.
ReaderFor(format) ==
    IF format = "fasta" THEN [reader |-> "FastaReader", error |-> NoError]
    ELSE IF format = "fastq" THEN [reader |-> "FastqReader", error |-> NoError]
    ELSE [reader |-> "open_reader", error |-> UnknownFileType(<<format>>)]

Sniffing ==
    /\ reader = "open_reader"
    /\ pc = "sniff"

\* `if line.startswith('#'): continue`
SniffComment ==
    /\ Sniffing
    /\ pos1 < Len(file1)
    /\ StartsWith(file1[pos1 + 1], "#")
    /\ pos1' = pos1 + 1
    /\ UNCHANGED <<reader, pc, file1, file2, pos2, wrapVars, fastaVars, pairVars,
                   fileformat, observed, ctorVars, yielded, error>>

\* the first line that is no comment: classify it, push it back, leave the
\* loop and return the reader of the format found
SniffLine ==
    /\ Sniffing
    /\ pos1 < Len(file1)
    /\ ~StartsWith(file1[pos1 + 1], "#")
    /\ LET line == file1[pos1 + 1]
           made == ReaderFor(FormatOfLine(line))
       IN  /\ fileformat' = FormatOfLine(line)
           /\ first_line' = PushBack(line)
           /\ reader' = made.reader
           /\ error' = made.error
           /\ pc' = IF Raised(made.error) THEN "error" ELSE "iter"
    /\ pos1' = pos1 + 1
    /\ UNCHANGED <<file1, file2, pos2, delivered, iterations, fastaVars, pairVars,
                   observed, ctorVars, yielded>>

\* the file ends before any such line: the format stays undetermined
SniffEnd ==
    /\ Sniffing
    /\ pos1 = Len(file1)
    /\ error' = ReaderFor(fileformat).error
    /\ pc' = "error"
    /\ UNCHANGED <<reader, file1, file2, pos1, pos2, wrapVars, fastaVars, pairVars,
                   fileformat, observed, ctorVars, yielded>>

\* FastqReader takes the lines of its file one after the other.
FastqReadLine ==
    /\ reader = "FastqReader"
    /\ pc = "iter"
    /\ ~FileAtEnd
    /\ TakeLine
    /\ UNCHANGED <<reader, pc, file2, pos2, fastaVars, pairVars, fileformat,
                   ctorVars, yielded, error>>

FastqEnd ==
    /\ reader = "FastqReader"
    /\ pc = "iter"
    /\ FileAtEnd
    /\ pc' = "done"
    /\ UNCHANGED <<reader, file1, file2, pos1, pos2, wrapVars, fastaVars, pairVars,
                   fileformat, observed, ctorVars, yielded, error>>

\* open_reader(file1) on an open text file whose name tells no format
InitDetect ==
    /\ reader = "open_reader"
    /\ pc = "sniff"
    /\ file1 \in TextFiles(DetectBodies, MaxLines)
    /\ delimiter = <<>>
    /\ file2 = <<>>
    /\ Idle

NextDetect ==
    \/ SniffComment
    \/ SniffLine
    \/ SniffEnd
    \/ FastaReadLine
    \/ FastaResume
    \/ FastaEnd
    \/ FastaReturn
    \/ FastqReadLine
    \/ FastqEnd

SpecDetect == InitDetect /\ [][NextDetect]_vars

\* the number of leading lines of f that start with '#'
RECURSIVE LeadingComments(_)
LeadingComments(f) ==
    IF f # <<>> /\ StartsWith(Head(f), "#") THEN 1 + LeadingComments(Tail(f)) ELSE 0

\* the lines of f from its first line that is no comment
Significant(f) == SubSeq(f, LeadingComments(f) + 1, Len(f))

\* a line without its line break
Chomp(line) == IF EndsWith(line, "\n") THEN DropLast(line) ELSE line

Chomped(f) == [k \in 1..Len(f) |-> Chomp(f[k])]

\* the lines the returned reader has read and those it has still to read
ReaderLines ==
    observed
        \o (IF first_line # None /\ ~delivered THEN <<first_line>> ELSE <<>>)
        \o SubSeq(file1, pos1 + 1, Len(file1))

\* C4: content detection skips the leading '#' lines and classifies by the
\* first remaining line; the reader returned reads that line first and then
\* the rest of the stream: no line after the skipped comments is lost,
\* duplicated or reordered, and the first FASTA record is named by that line.
C4_SniffedLineKept ==
    /\ pc # "sniff" =>
          fileformat = (IF Significant(file1) = <<>> THEN NoFormat
                        ELSE FormatOfLine(Significant(file1)[1]))
    /\ reader \in {"FastaReader", "FastqReader"} =>
          /\ fileformat = (IF reader = "FastaReader" THEN "fasta" ELSE "fastq")
          /\ Chomped(ReaderLines) = Chomped(Significant(file1))
          /\ pc \in {"last", "done"} => Chomped(observed) = Chomped(Significant(file1))
    /\ reader = "FastaReader" /\ yielded # <<>> =>
          yielded[1].name = Rest(Strip(Significant(file1)[1]))
    /\ reader = "open_reader" /\ pc = "error" => error.type = "UnknownFileType"

\* a FASTA file read to its end: one comment skipped, the header pushed back
\* and read again, then a sequence line
C4_Witness ==
    /\ reader = "FastaReader"
    /\ pc = "done"
    /\ LeadingComments(file1) = 1
    /\ Len(yielded) = 1
    /\ yielded[1].sequence # <<>>

-----------------------------------------------------------------------------
(* sequence_names_match *)

sequence_names_match_exact(r1, r2) ==
    LET words1 == Split(r1.name)
        words2 == Split(r2.name)
    IN  IF words1 = <<>> \/ words2 = <<>> THEN "IndexError"
        ELSE IF words1[1] = words2[1] THEN "True" ELSE "False"

\* The outcome of sequence_names_match(read1, read2): "True", "False", or
\* "IndexError" when `name.split(None, 1)[0]` finds no word in a name.
sequence_names_match(r1, r2) ==
    LET words1 == Split(r1.name)
        words2 == Split(r2.name)
    IN  IF words1 = <<>> \/ words2 = <<>> THEN "IndexError"
        ELSE LET name1 == words1[1]
                 name2 == words2[1]
                 both == Last(name1)[1] \in {"1", "2"} /\ Last(name2)[1] \in {"1", "2"}
                 left == IF both THEN DropLast(name1) ELSE name1
                 right == IF both THEN DropLast(name2) ELSE name2
             IN  IF left = right THEN "True" ELSE "False"

-----------------------------------------------------------------------------
(* PairedSequenceReader.__iter__ and InterleavedSequenceReader.__iter__ *)

\* Read names of the model: mates /1 and /2 written a1 and a2, a name
\* without mate digit, another read, names with a description after a blank
\* or a form feed, and the empty name.
ReadNames ==
    { <<"a", "1">>, <<"a", "2">>, <<"a">>, <<"b", "2">>,
      <<"a", " ", "x">>, <<"a", "1", " ", "y">>, <<"a", "chr(12)", "x">>, <<>> }

\* the k-th record of a stream; its sequence tells the records of a stream apart
Read(n, k, base) == Record(n, [m \in 1..k |-> base], None, <<>>)

\* Two files of n1 and n2 records named a1 and a2, but for the pair at
\* position j, whose records are named x and y.
PairedFile1(n1, j, x) == [k \in 1..n1 |-> Read(IF k = j THEN x ELSE <<"a", "1">>, k, "A")]

PairedFile2(n2, j, y) == [k \in 1..n2 |-> Read(IF k = j THEN y ELSE <<"a", "2">>, k, "C")]

\* The same pairs in one interleaved file of n records.
InterleavedFile(n, j, x, y) ==
    [k \in 1..n |->
        Read(IF k = 2 * j - 1 THEN x
             ELSE IF k = 2 * j THEN y
             ELSE IF k % 2 = 1 THEN <<"a", "1">> ELSE <<"a", "2">>,
             k, "A")]

File2Unchecked(more) == NoError

\* End of file 1: `next(it2)` must stop too.
File2AtEnd(more) ==
    IF more
    THEN FormatError("Reads are improperly paired. There are more reads in file 2 than in file 1.", <<>>)
    ELSE NoError

\* End of file 2 while file 1 had a record.
File1HasMore ==
    FormatError("Reads are improperly paired. There are more reads in file 1 than in file 2.", <<>>)

NoPartnerIgnored == NoError

\* End of the interleaved file after the first record of a pair.
NoPartner ==
    FormatError("Interleaved input file incomplete: Last record has no partner.", <<>>)

\* `if not sequence_names_match(read1, read2): raise FormatError(...)`
PairCheck(r1, r2, msg) ==
    LET m == sequence_names_match(r1, r2)
    IN  IF m = "IndexError" THEN IndexError
        ELSE IF m = "False" THEN FormatError(msg, <<r1.name, r2.name>>)
        ELSE NoError

\* `read1 = next(it1)`
PairedNext1 ==
    /\ reader = "PairedSequenceReader"
    /\ pc = "next1"
    /\ pos1 < Len(file1)
    /\ read1' = file1[pos1 + 1]
    /\ pos1' = pos1 + 1
    /\ calls1' = calls1 + 1
    /\ pc' = "next2"
    /\ UNCHANGED <<reader, file1, file2, pos2, wrapVars, fastaVars, read2, calls2,
                   fileformat, observed, ctorVars, yielded, error>>

PairedStop1Drained ==
    /\ reader = "PairedSequenceReader"
    /\ pc = "next1"
    /\ pos1 = Len(file1)
    /\ calls1' = calls1 + 1
    /\ calls2' = calls2 + (Len(file2) - pos2) + 1
    /\ pos2' = Len(file2)
    /\ error' = File2AtEnd(pos2 < Len(file2))
    /\ pc' = IF Raised(error') THEN "error" ELSE "done"
    /\ UNCHANGED <<reader, file1, file2, pos1, wrapVars, fastaVars, read1, read2,
                   fileformat, observed, ctorVars, yielded>>

\* `except StopIteration:` file 1 is at its end; file 2 is asked for a record
PairedStop1 ==
    /\ reader = "PairedSequenceReader"
    /\ pc = "next1"
    /\ pos1 = Len(file1)
    /\ calls1' = calls1 + 1
    /\ calls2' = calls2 + 1
    /\ pos2' = IF pos2 < Len(file2) THEN pos2 + 1 ELSE pos2
    /\ error' = File2AtEnd(pos2 < Len(file2))
    /\ pc' = IF Raised(error') THEN "error" ELSE "done"
    /\ UNCHANGED <<reader, file1, file2, pos1, wrapVars, fastaVars, read1, read2,
                   fileformat, observed, ctorVars, yielded>>

\* `read2 = next(it2)`
PairedNext2 ==
    /\ reader = "PairedSequenceReader"
    /\ pc = "next2"
    /\ pos2 < Len(file2)
    /\ read2' = file2[pos2 + 1]
    /\ pos2' = pos2 + 1
    /\ calls2' = calls2 + 1
    /\ pc' = "match"
    /\ UNCHANGED <<reader, file1, file2, pos1, wrapVars, fastaVars, read1, calls1,
                   fileformat, observed, ctorVars, yielded, error>>

\* `except StopIteration: raise FormatError(...)`
PairedStop2 ==
    /\ reader = "PairedSequenceReader"
    /\ pc = "next2"
    /\ pos2 = Len(file2)
    /\ calls2' = calls2 + 1
    /\ error' = File1HasMore
    /\ pc' = "error"
    /\ UNCHANGED <<reader, file1, file2, pos1, pos2, wrapVars, fastaVars, read1, read2,
                   calls1, fileformat, observed, ctorVars, yielded>>

\* the name check, then `yield (read1, read2)`
PairedMatch ==
    /\ reader = "PairedSequenceReader"
    /\ pc = "match"
    /\ error' = PairCheck(read1, read2, "Reads are improperly paired. Read name in file 1 does not match name in file 2.")
    /\ yielded' = IF Raised(error') THEN yielded ELSE Append(yielded, <<read1, read2>>)
    /\ pc' = IF Raised(error') THEN "error" ELSE "next1"
    /\ UNCHANGED <<reader, file1, file2, pos1, pos2, wrapVars, fastaVars, pairVars,
                   fileformat, observed, ctorVars>>

\* `for read1 in itr`
InterleavedNext1 ==
    /\ reader = "InterleavedSequenceReader"
    /\ pc = "next1"
    /\ pos1 < Len(file1)
    /\ read1' = file1[pos1 + 1]
    /\ pos1' = pos1 + 1
    /\ calls1' = calls1 + 1
    /\ pc' = "next2"
    /\ UNCHANGED <<reader, file1, file2, pos2, wrapVars, fastaVars, read2, calls2,
                   fileformat, observed, ctorVars, yielded, error>>

\* the loop ends with the file
InterleavedStop1 ==
    /\ reader = "InterleavedSequenceReader"
    /\ pc = "next1"
    /\ pos1 = Len(file1)
    /\ calls1' = calls1 + 1
    /\ pc' = "done"
    /\ UNCHANGED <<reader, file1, file2, pos1, pos2, wrapVars, fastaVars, read1, read2,
                   calls2, fileformat, observed, ctorVars, yielded, error>>

\* `read2 = next(itr)`
InterleavedNext2 ==
    /\ reader = "InterleavedSequenceReader"
    /\ pc = "next2"
    /\ pos1 < Len(file1)
    /\ read2' = file1[pos1 + 1]
    /\ pos1' = pos1 + 1
    /\ calls1' = calls1 + 1
    /\ pc' = "match"
    /\ UNCHANGED <<reader, file1, file2, pos2, wrapVars, fastaVars, read1, calls2,
                   fileformat, observed, ctorVars, yielded, error>>

\* `except StopIteration: raise FormatError(...)`
InterleavedStop2 ==
    /\ reader = "InterleavedSequenceReader"
    /\ pc = "next2"
    /\ pos1 = Len(file1)
    /\ calls1' = calls1 + 1
    /\ error' = NoPartner
    /\ pc' = IF Raised(error') THEN "error" ELSE "done"
    /\ UNCHANGED <<reader, file1, file2, pos1, pos2, wrapVars, fastaVars, read1, read2,
                   calls2, fileformat, observed, ctorVars, yielded>>

\* the name check, then `yield (read1, read2)`
InterleavedMatch ==
    /\ reader = "InterleavedSequenceReader"
    /\ pc = "match"
    /\ error' = PairCheck(read1, read2, "Reads are improperly paired. Name (first) does not match (second).")
    /\ yielded' = IF Raised(error') THEN yielded ELSE Append(yielded, <<read1, read2>>)
    /\ pc' = IF Raised(error') THEN "error" ELSE "next1"
    /\ UNCHANGED <<reader, file1, file2, pos1, pos2, wrapVars, fastaVars, pairVars,
                   fileformat, observed, ctorVars>>

\* the variables a pairing reader does not use
IdlePairing ==
    /\ pc = "next1"
    /\ pos1 = 0
    /\ pos2 = 0
    /\ first_line = None
    /\ delivered = FALSE
    /\ iterations = 0
    /\ name = None
    /\ seq = <<>>
    /\ idx = 0
    /\ delimiter = <<>>
    /\ read1 = NoRecord
    /\ read2 = NoRecord
    /\ calls1 = 0
    /\ calls2 = 0
    /\ fileformat = NoFormat
    /\ observed = <<>>
    /\ call = NoRecord
    /\ obj = NoRecord
    /\ yielded = <<>>
    /\ error = NoError

\* A paired reader on two record streams, or an interleaved reader on one.
InitPairing ==
    /\ \E n1 \in 0..MaxReads, n2 \in 0..MaxReads, j \in 1..MaxReads,
          x \in ReadNames, y \in ReadNames :
          \/ /\ reader = "PairedSequenceReader"
             /\ file1 = PairedFile1(n1, j, x)
             /\ file2 = PairedFile2(n2, j, y)
          \/ /\ reader = "InterleavedSequenceReader"
             /\ file1 = InterleavedFile(n1 + n2, j, x, y)
             /\ file2 = <<>>
    /\ IdlePairing

NextPairing ==
    \/ PairedNext1
    \/ PairedStop1
    \/ PairedNext2
    \/ PairedStop2
    \/ PairedMatch
    \/ InterleavedNext1
    \/ InterleavedStop1
    \/ InterleavedNext2
    \/ InterleavedStop2
    \/ InterleavedMatch

SpecPairing == InitPairing /\ [][NextPairing]_vars

-----------------------------------------------------------------------------
(* Claims on the pairing readers *)

\* the k-th pair of the two files, and of the interleaved file
FilePair(k) == <<file1[k], file2[k]>>

InterleavedPair(k) == <<file1[2 * k - 1], file1[2 * k]>>

\* all the pairs of the input have matching names
PairedNamesMatch ==
    \A k \in 1..Min(Len(file1), Len(file2)) :
        sequence_names_match(file1[k], file2[k]) = "True"

InterleavedNamesMatch ==
    \A k \in 1..(Len(file1) \div 2) :
        sequence_names_match(file1[2 * k - 1], file1[2 * k]) = "True"

\* C1: over two streams of n1 and n2 records with matching names,
\* PairedSequenceReader yields min(n1, n2) pairs, the k-th made of the k-th
\* records; it ends normally iff n1 = n2 and otherwise raises the pairing
\* error of the longer file, after which nothing more is yielded.
C1_PairedLengths ==
    reader = "PairedSequenceReader" /\ PairedNamesMatch =>
        /\ Len(yielded) <= Min(Len(file1), Len(file2))
        /\ \A k \in 1..Len(yielded) : yielded[k] = FilePair(k)
        /\ pc = "done" =>
              /\ Len(file1) = Len(file2)
              /\ Len(yielded) = Len(file1)
        /\ pc = "error" =>
              /\ Len(file1) # Len(file2)
              /\ Len(yielded) = Min(Len(file1), Len(file2))
              /\ Len(file1) > Len(file2) =>
                    error.type = "FormatError" /\ error = File1HasMore
              /\ Len(file2) > Len(file1) =>
                    error.type = "FormatError" /\ error # File1HasMore
        /\ pc \in {"next1", "next2", "match", "done", "error"}

\* three records in file 1, two in file 2: two pairs, then the error
C1_Witness ==
    /\ reader = "PairedSequenceReader"
    /\ PairedNamesMatch
    /\ Len(file1) = 3
    /\ Len(file2) = 2
    /\ pc = "error"
    /\ Len(yielded) = 2

\* the first word of a name, <<>> when the name holds no word
FirstWord(n) == TakeWord(LStrip(n))

EndsInMateDigit(n) == EndsWith(n, "1") \/ EndsWith(n, "2")

\* two names are equal once the last character of each is removed, which is
\* done when both end in '1' or '2'
EqualButForMate(n1, n2) ==
    IF EndsInMateDigit(n1) /\ EndsInMateDigit(n2)
    THEN DropLast(n1) = DropLast(n2)
    ELSE n1 = n2

\* C2 as stated: a pulled pair is yielded iff the two names are equal but for
\* the mate digit, and raises a pairing FormatError otherwise.
C2_WholeNames ==
    [][pc = "match" =>
          IF EqualButForMate(read1.name, read2.name)
          THEN pc' = "next1" /\ yielded' = Append(yielded, <<read1, read2>>)
          ELSE pc' = "error" /\ error'.type = "FormatError" /\ yielded' = yielded]_vars

\* C2, amended: the comparison is made on the first whitespace-separated word
\* of each name.  A pulled pair is yielded iff both names hold a word and
\* the two first words are equal but for the mate digit; if the first words
\* differ, a pairing FormatError naming both reads is raised; if a name holds
\* no word (it is empty), an IndexError is raised; nothing is yielded after
\* either error.
C2_FirstWords ==
    [][/\ pc = "match" =>
             LET word1 == FirstWord(read1.name)
                 word2 == FirstWord(read2.name)
             IN  IF word1 = <<>> \/ word2 = <<>>
                 THEN pc' = "error" /\ error'.type = "IndexError" /\ yielded' = yielded
                 ELSE IF EqualButForMate(word1, word2)
                 THEN /\ pc' = "next1"
                      /\ ~Raised(error')
                      /\ yielded' = Append(yielded, <<read1, read2>>)
                 ELSE /\ pc' = "error"
                      /\ error'.type = "FormatError"
                      /\ error'.args = <<read1.name, read2.name>>
                      /\ yielded' = yielded
       /\ pc = "error" => yielded' = yielded]_vars

\* a pair is yielded whose names differ after the first word
C2_Witness ==
    /\ reader = "InterleavedSequenceReader"
    /\ pc = "next1"
    /\ Len(yielded) = 2
    /\ yielded[2][1].name = <<"a", "1", " ", "y">>
    /\ yielded[2][2].name = <<"a", "2">>

\* C3: over a stream of n records with matching names,
\* InterleavedSequenceReader yields floor(n/2) pairs, the k-th made of
\* records 2k-1 and 2k; it ends normally for even n and raises the pairing
\* error "last record has no partner" for odd n, after those pairs.
C3_InterleavedOdd ==
    reader = "InterleavedSequenceReader" /\ InterleavedNamesMatch =>
        /\ Len(yielded) <= Len(file1) \div 2
        /\ \A k \in 1..Len(yielded) : yielded[k] = InterleavedPair(k)
        /\ pc = "done" =>
              /\ Len(file1) % 2 = 0
              /\ Len(yielded) = Len(file1) \div 2
        /\ pc = "error" =>
              /\ Len(file1) % 2 = 1
              /\ Len(yielded) = Len(file1) \div 2
              /\ error.type = "FormatError"
              /\ error.msg = "Interleaved input file incomplete: Last record has no partner."

\* five records: two pairs, then the error
C3_Witness ==
    /\ reader = "InterleavedSequenceReader"
    /\ InterleavedNamesMatch
    /\ Len(file1) = 5
    /\ pc = "error"
    /\ Len(yielded) = 2

-----------------------------------------------------------------------------
(* ColorspaceSequence and sra_colorspace_sequence *)

\* s[a:b] for 0 <= a and 0 <= b
Slice(s, a, b) == SubSeq(s, a + 1, Min(b, Len(s)))

PrimerUnchecked(p) == TRUE

\* `self.primer in ('A', 'C', 'G', 'T')`
PrimerValid(p) == p \in {<<"A">>, <<"C">>, <<"G">>, <<"T">>}

\* ColorspaceSequence.__init__(name, sequence, qualities, primer, name2):
\* the object made, or the error raised.
ColorspaceSequence(n, sequence, q, primer, n2) ==
    LET p == IF primer = None THEN First(sequence) ELSE primer
        s == IF primer = None THEN Rest(sequence) ELSE sequence
        base == Sequence(n, s, q, n2)
    IN  IF q # None /\ Len(s) # Len(q)
        THEN [error |-> FormatError("length of colorspace quality sequence and length of read do not match",
                                    <<n, Len(q), Len(s), p>>),
              obj |-> NoRecord]
        ELSE IF Raised(base.error) THEN base
        ELSE IF ~PrimerValid(p)
        THEN [error |-> FormatError("Primer base should be one of A, C, G, T", <<p, n>>),
              obj |-> NoRecord]
        ELSE [error |-> NoError,
              obj |-> [name |-> n, sequence |-> s, qualities |-> q, name2 |-> n2,
                       primer |-> p]]

\* ColorspaceSequence.__getitem__(key) for the slice key a:b
GetItem(o, a, b) ==
    ColorspaceSequence(o.name,
                       Slice(o.sequence, a, b),
                       IF o.qualities # None THEN Slice(o.qualities, a, b) ELSE None,
                       o.primer,
                       o.name2)

sra_colorspace_sequence_kept(n, sequence, q, n2) ==
    ColorspaceSequence(n, sequence, q, None, n2)

\* sra_colorspace_sequence(name, sequence, qualities, name2)
sra_colorspace_sequence(n, sequence, q, n2) ==
    ColorspaceSequence(n, sequence, Rest(q), None, n2)

\* Raw colorspace sequences: a primer base or something else, then colors.
RawSequences == SeqsUpTo({"A", "N", "0"}, MaxSeqLen)

\* Quality strings, as long as the longest raw sequence at most.
QualityStrings == SeqsUpTo({"!", "I"}, MaxSeqLen)

SecondHeaders == {<<>>, <<"r">>}

Arguments(fn, n, s, q, p, n2, key) ==
    [fn |-> fn, name |-> n, sequence |-> s, qualities |-> q, primer |-> p, name2 |-> n2,
     key |-> key]

Returned(made) ==
    /\ obj' = made.obj
    /\ error' = made.error
    /\ pc' = IF Raised(made.error) THEN "error" ELSE "made"

\* ColorspaceSequence(name, sequence, qualities, name2=name2): the primer is
\* split off the sequence
Construct ==
    /\ reader = "ColorspaceSequence"
    /\ pc = "new"
    /\ \E s \in RawSequences, q \in QualityStrings \cup {None}, n2 \in SecondHeaders :
          /\ call' = Arguments("ColorspaceSequence", <<"r">>, s, q, None, n2, <<>>)
          /\ Returned(ColorspaceSequence(<<"r">>, s, q, None, n2))
    /\ UNCHANGED <<reader, file1, file2, pos1, pos2, wrapVars, fastaVars, pairVars,
                   fileformat, observed, yielded>>

\* ColorspaceSequence(name, sequence, qualities, primer): the primer is given
ConstructWithPrimer ==
    /\ reader = "ColorspaceSequence"
    /\ pc = "new"
    /\ \E s \in RawSequences, q \in QualityStrings \cup {None}, p \in {<<"G">>, <<"N">>, <<>>} :
          /\ call' = Arguments("ColorspaceSequence", <<"r">>, s, q, p, <<>>, <<>>)
          /\ Returned(ColorspaceSequence(<<"r">>, s, q, p, <<>>))
    /\ UNCHANGED <<reader, file1, file2, pos1, pos2, wrapVars, fastaVars, pairVars,
                   fileformat, observed, yielded>>

\* record[a:b] on the object made last
Subscript ==
    /\ reader = "ColorspaceSequence"
    /\ pc = "made"
    /\ \E a \in 0..MaxSeqLen, b \in 0..MaxSeqLen :
          /\ call' = Arguments("__getitem__", obj.name, obj.sequence, obj.qualities,
                               obj.primer, obj.name2, <<a, b>>)
          /\ Returned(GetItem(obj, a, b))
    /\ UNCHANGED <<reader, file1, file2, pos1, pos2, wrapVars, fastaVars, pairVars,
                   fileformat, observed, yielded>>

\* the record constructor of SRAColorspaceFastqReader
ConstructSRA ==
    /\ reader = "ColorspaceSequence"
    /\ pc = "new"
    /\ \E s \in RawSequences, q \in QualityStrings, n2 \in SecondHeaders :
          /\ call' = Arguments("sra_colorspace_sequence", <<"r">>, s, q, None, n2, <<>>)
          /\ Returned(sra_colorspace_sequence(<<"r">>, s, q, n2))
    /\ UNCHANGED <<reader, file1, file2, pos1, pos2, wrapVars, fastaVars, pairVars,
                   fileformat, observed, yielded>>

InitColorspace ==
    /\ reader = "ColorspaceSequence"
    /\ pc = "new"
    /\ file1 = <<>>
    /\ delimiter = <<>>
    /\ file2 = <<>>
    /\ Idle

NextColorspace ==
    \/ Construct
    \/ ConstructWithPrimer
    \/ Subscript
    \/ ConstructSRA

SpecColorspace == InitColorspace /\ [][NextColorspace]_vars

Bases == {"A", "C", "G", "T"}

\* C7: built from a raw sequence s without a primer, a ColorspaceSequence is
\* made iff s starts with A, C, G or T and the qualities are absent or of
\* length len(s) - 1; then primer = s[0] and sequence = s[1:]; otherwise a
\* FormatError naming the read is raised.  Every ColorspaceSequence, a slice
\* of another included, has its primer in {A, C, G, T} and, when it has
\* qualities, as many as colors.
C7_ColorspaceInvariant ==
    /\ call # NoRecord /\ call.fn = "ColorspaceSequence" /\ call.primer = None =>
          LET s == call.sequence
              q == call.qualities
          IN  IF /\ s # <<>>
                 /\ s[1] \in Bases
                 /\ (q = None \/ Len(q) = Len(s) - 1)
              THEN /\ pc = "made"
                   /\ obj.primer = <<s[1]>>
                   /\ obj.sequence = Tail(s)
                   /\ obj.qualities = q
                   /\ obj.name = call.name
              ELSE /\ pc = "error"
                   /\ obj = NoRecord
                   /\ error.type = "FormatError"
                   /\ \E k \in 1..Len(error.args) : error.args[k] = call.name
    /\ reader = "ColorspaceSequence" /\ obj # NoRecord =>
          /\ Len(obj.primer) = 1
          /\ obj.primer[1] \in Bases
          /\ obj.qualities # None => Len(obj.qualities) = Len(obj.sequence)
    /\ call # NoRecord /\ call.fn = "__getitem__" =>
          /\ pc = "made"
          /\ obj.primer = call.primer
          /\ obj.name = call.name
          /\ obj.sequence = Slice(call.sequence, call.key[1], call.key[2])
          /\ call.qualities # None =>
                obj.qualities = Slice(call.qualities, call.key[1], call.key[2])

\* a proper slice of a record that has qualities
C7_Witness ==
    /\ call # NoRecord
    /\ call.fn = "__getitem__"
    /\ Len(call.sequence) = 2
    /\ obj # NoRecord
    /\ Len(obj.sequence) = 1
    /\ obj.qualities # None

SraCalled == call # NoRecord /\ call.fn = "sra_colorspace_sequence"

\* what a successful SRA construction returns
SraResult ==
    /\ pc = "made"
    /\ obj.primer = <<call.sequence[1]>>
    /\ obj.sequence = Tail(call.sequence)
    /\ obj.qualities = Rest(call.qualities)
    /\ obj.name2 = call.name2

SraFailure ==
    /\ pc = "error"
    /\ obj = NoRecord
    /\ error.type = "FormatError"

\* C8 as stated: the SRA constructor succeeds iff s[0] is one of A, C, G, T
\* and len(q) = len(s).
C8_EqualLengths ==
    SraCalled =>
        IF /\ call.sequence # <<>>
           /\ call.sequence[1] \in Bases
           /\ Len(call.qualities) = Len(call.sequence)
        THEN SraResult
        ELSE SraFailure

\* C8, amended: the SRA constructor drops the first quality character, if
\* there is one.  It succeeds iff s[0] is one of A, C, G, T and either
\* len(q) = len(s), or s is the primer alone and q is empty; it then gives
\* primer s[0], sequence s[1:], qualities q[1:] and the secondary header
\* unchanged; otherwise it raises a FormatError.
C8_FirstQualityDropped ==
    SraCalled =>
        IF /\ call.sequence # <<>>
           /\ call.sequence[1] \in Bases
           /\ \/ Len(call.qualities) = Len(call.sequence)
              \/ Len(call.sequence) = 1 /\ call.qualities = <<>>
        THEN SraResult
        ELSE SraFailure

\* an SRA record of two colors: three quality characters, the first dropped
C8_Witness ==
    /\ SraCalled
    /\ pc = "made"
    /\ Len(call.qualities) = 3
    /\ call.qualities[1] # call.qualities[2]
    /\ obj.qualities = Tail(call.qualities)
    /\ obj.name2 = <<"r">>

-----------------------------------------------------------------------------
(* FastaQualReader.__iter__ *)

\* the characters of code 33 to 126 (the grave accent by its name)
Printable ==
    << "!", "\"", "#", "$", "%", "&", "'", "(", ")", "*", "+", ",",
       "-", ".", "/", "0", "1", "2", "3", "4", "5", "6", "7", "8",
       "9", ":", ";", "<", "=", ">", "?", "@", "A", "B", "C", "D",
       "E", "F", "G", "H", "I", "J", "K", "L", "M", "N", "O", "P",
       "Q", "R", "S", "T", "U", "V", "W", "X", "Y", "Z", "[", "\\",
       "]", "^", "_", "chr(96)", "a", "b", "c", "d", "e", "f", "g", "h",
       "i", "j", "k", "l", "m", "n", "o", "p", "q", "r", "s", "t",
       "u", "v", "w", "x", "y", "z", "{", "|", "}", "~" >>

\* chr(n): the character itself when it prints, and its name otherwise
Chr(n) == IF n \in 33..126 THEN Printable[n - 32] ELSE "chr(" \o ToString(n) \o ")"

Digits == <<"0", "1", "2", "3", "4", "5", "6", "7", "8", "9">>

\* str(n) for n >= 0
RECURSIVE StrNat(_)
StrNat(n) ==
    IF n < 10 THEN <<Digits[n + 1]>>
    ELSE StrNat(n \div 10) \o <<Digits[(n % 10) + 1]>>

\* str(i)
Str(i) == IF i < 0 THEN <<"-">> \o StrNat(0 - i) ELSE StrNat(i)

\* `range(-5, 256 - 33)`
ConvRange == (0 - 5)..(256 - 33 - 1)

QualityCharShifted(i) == Chr(i + 64)

\* `chr(i + 33)`
QualityChar(i) == Chr(i + 33)

\* `value in conv`: conv maps str(i) to chr(i + 33) for the i of the range
InConv(value) == \E i \in ConvRange : Str(i) = value

\* `conv[value]`
Conv(value) == QualityChar(CHOOSE i \in ConvRange : Str(i) = value)

\* `''.join([conv[value] for value in qualread.sequence.split()])`: the
\* decoded string, or the first value that is no key of conv
Decode(text) ==
    LET values == Split(text)
        bad == {k \in 1..Len(values) : ~InConv(values[k])}
    IN  IF bad = {}
        THEN [qualities |-> [k \in 1..Len(values) |-> Conv(values[k])], key |-> None]
        ELSE [qualities |-> None,
              key |-> values[CHOOSE k \in bad : \A m \in bad : k <= m]]

NamesDifferButForMate(r1, r2) == sequence_names_match(r1, r2) # "True"

\* `fastaread.name != qualread.name`
NamesDiffer(r1, r2) == r1.name # r2.name

\* the two FASTA readers: what each yields, and the error it ends with
FastaReaderOf(lines) == FastaIter(lines, <<>>)

QualReaderOf(lines) == FastaIter(lines, <<"\n">>)

\* zip(): next() on the FASTA reader
ZipFasta ==
    /\ reader = "FastaQualReader"
    /\ pc = "zip1"
    /\ LET it == FastaReaderOf(file1)
       IN  /\ calls1' = calls1 + 1
           /\ IF calls1 < Len(it.out)
              THEN read1' = it.out[calls1 + 1] /\ pc' = "zip2" /\ error' = error
              ELSE /\ read1' = read1
                   /\ error' = it.error
                   /\ pc' = IF Raised(it.error) THEN "error" ELSE "done"
    /\ UNCHANGED <<reader, file1, file2, pos1, pos2, wrapVars, fastaVars, read2, calls2,
                   fileformat, observed, ctorVars, yielded>>

ZipQualStrict ==
    /\ reader = "FastaQualReader"
    /\ pc = "zip2"
    /\ LET it == QualReaderOf(file2)
       IN  /\ calls2' = calls2 + 1
           /\ IF calls2 < Len(it.out)
              THEN read2' = it.out[calls2 + 1] /\ pc' = "body" /\ error' = error
              ELSE /\ read2' = read2
                   /\ error' = File1HasMore
                   /\ pc' = "error"
    /\ UNCHANGED <<reader, file1, file2, pos1, pos2, wrapVars, fastaVars, read1, calls1,
                   fileformat, observed, ctorVars, yielded>>

\* zip(): next() on the QUAL reader
ZipQual ==
    /\ reader = "FastaQualReader"
    /\ pc = "zip2"
    /\ LET it == QualReaderOf(file2)
       IN  /\ calls2' = calls2 + 1
           /\ IF calls2 < Len(it.out)
              THEN read2' = it.out[calls2 + 1] /\ pc' = "body" /\ error' = error
              ELSE /\ read2' = read2
                   /\ error' = it.error
                   /\ pc' = IF Raised(it.error) THEN "error" ELSE "done"
    /\ UNCHANGED <<reader, file1, file2, pos1, pos2, wrapVars, fastaVars, read1, calls1,
                   fileformat, observed, ctorVars, yielded>>

\* the loop body up to the decoded qualities: the names are compared, then
\* the quality values are converted
FastaQualDecode ==
    /\ reader = "FastaQualReader"
    /\ pc = "body"
    /\ LET decoded == Decode(read2.sequence)
       IN  IF NamesDiffer(read1, read2)
           THEN /\ error' = FormatError("The read names in the FASTA and QUAL file do not match",
                                        <<read1.name, read2.name>>)
                /\ pc' = "error"
                /\ call' = call
           ELSE IF decoded.key # None
           THEN /\ error' = FormatError("Found invalid quality value", <<read1.name, decoded.key>>)
                /\ pc' = "error"
                /\ call' = call
           ELSE /\ call' = Arguments("Sequence", read1.name, read1.sequence, decoded.qualities,
                                     None, <<>>, <<>>)
                /\ pc' = "yield"
                /\ error' = error
    /\ UNCHANGED <<reader, file1, file2, pos1, pos2, wrapVars, fastaVars, pairVars,
                   fileformat, observed, obj, yielded>>

\* `yield self.sequence_class(fastaread.name, fastaread.sequence, qualities)`
FastaQualYield ==
    /\ reader = "FastaQualReader"
    /\ pc = "yield"
    /\ LET made == Sequence(call.name, call.sequence, call.qualities, call.name2)
       IN  /\ obj' = made.obj
           /\ error' = made.error
           /\ yielded' = IF Raised(made.error) THEN yielded ELSE Append(yielded, made.obj)
           /\ pc' = IF Raised(made.error) THEN "error" ELSE "zip1"
    /\ UNCHANGED <<reader, file1, file2, pos1, pos2, wrapVars, fastaVars, pairVars,
                   fileformat, observed, call>>

\* the lines of the chunks of a file, one after the other
RECURSIVE Lines(_)
Lines(chunks) == IF chunks = <<>> THEN <<>> ELSE Head(chunks) \o Lines(Tail(chunks))

\* Records of the FASTA files of the model, as lines: reads a1 and a2, a read
\* of one base, and a sequence line without header.
FastaChunks ==
    { << <<">", "a", "1">>, <<"A", "C">> >>,
      << <<">", "a", "2">>, <<"A", "C">> >>,
      << <<">", "a", "1">>, <<"G">> >>,
      << <<"G">> >> }

\* Records of the QUAL files of the model: two values on one line and on two
\* lines, the ends of the range and the values next to them, a value with a
\* leading zero, a signed one, a zero with a minus sign, a word, and a line
\* of values without header.
QualChunks ==
    { << <<">", "a", "1">>, <<"0", " ", "5">> >>,
      << <<">", "a", "1">>, <<"0">>, <<"5">> >>,
      << <<">", "a", "2">>, <<"0", " ", "5">> >>,
      << <<">", "a", "1">>, <<"-", "5", " ", "2", "2", "2">> >>,
      << <<">", "a", "1">>, <<"2", "2", "3", " ", "0">> >>,
      << <<">", "a", "1">>, <<"0", " ", "-", "6">> >>,
      << <<">", "a", "1">>, <<"0", "5", " ", "1">> >>,
      << <<">", "a", "1">>, <<"+", "5", " ", "0">> >>,
      << <<">", "a", "1">>, <<"-", "0", " ", "1">> >>,
      << <<">", "a", "1">>, <<"0", " ", "x">> >>,
      << <<">", "a", "1">>, <<"4", "0">> >>,
      << <<"7">> >> }

\* A file of n chunks, all the first of the two given but for the one at j.
ChunkFile(n, j, usual, other) ==
    FileLines(Lines([k \in 1..n |-> IF k = j THEN other ELSE usual]), TRUE)

\* FastaQualReader(fastafile, qualfile) on two open text files
InitFastaQual ==
    /\ reader = "FastaQualReader"
    /\ pc = "zip1"
    /\ \E n1 \in 0..MaxReads, n2 \in 0..MaxReads, j \in 1..MaxReads,
          x \in FastaChunks, y \in QualChunks :
          /\ file1 = ChunkFile(n1, j, << <<">", "a", "1">>, <<"A", "C">> >>, x)
          /\ file2 = ChunkFile(n2, j, << <<">", "a", "1">>, <<"0", " ", "5">> >>, y)
    /\ delimiter = <<>>
    /\ Idle

NextFastaQual ==
    \/ ZipFasta
    \/ ZipQual
    \/ FastaQualDecode
    \/ FastaQualYield

SpecFastaQual == InitFastaQual /\ [][NextFastaQual]_vars

-----------------------------------------------------------------------------
(* Claims on FastaQualReader *)

\* the records of a FASTA-shaped file: none when a line comes before the
\* first header
FastaRecords(f, delim) == IF Orphans(f) = {} THEN HeaderRecords(f, delim) ELSE <<>>

NamesMessage == "The read names in the FASTA and QUAL file do not match"

\* the pairs of records, counted from 1, whose names are not the same string
DifferingPairs ==
    LET fa == FastaRecords(file1, <<>>)
        qu == FastaRecords(file2, <<"\n">>)
    IN  {k \in 1..Min(Len(fa), Len(qu)) : fa[k].name # qu[k].name}

\* C9: the k-th record FastaQualReader yields has the name and the sequence
\* of the k-th FASTA record and the decoded qualities of the k-th QUAL
\* record, and the two names are the same string; the first pair of
\* differing names raises a FormatError naming both, and nothing is yielded
\* from that pair on.
C9_LockStep ==
    reader = "FastaQualReader" =>
        LET fa == FastaRecords(file1, <<>>)
            qu == FastaRecords(file2, <<"\n">>)
            n == Len(yielded)
        IN  /\ n <= Min(Len(fa), Len(qu))
            /\ \A k \in 1..n :
                  /\ yielded[k].name = fa[k].name
                  /\ yielded[k].sequence = fa[k].sequence
                  /\ yielded[k].qualities = Decode(qu[k].sequence).qualities
                  /\ fa[k].name = qu[k].name
            /\ \A k \in DifferingPairs : n < k
            /\ pc = "done" => DifferingPairs = {} /\ n = Min(Len(fa), Len(qu))
            /\ (pc = "error" /\ n + 1 \in DifferingPairs) =>
                  error = FormatError(NamesMessage, <<fa[n + 1].name, qu[n + 1].name>>)
            /\ (pc = "error" /\ error.msg = NamesMessage) => n + 1 \in DifferingPairs

\* a record was yielded, and the next pair is a1 with a2
C9_Witness ==
    /\ reader = "FastaQualReader"
    /\ pc = "error"
    /\ Len(yielded) >= 1
    /\ error = FormatError(NamesMessage, << <<"a", "1">>, <<"a", "2">> >>)

IsDigit(c) == c \in {"0", "1", "2", "3", "4", "5", "6", "7", "8", "9"}

DigitValue(c) == CHOOSE d \in 0..9 : Digits[d + 1] = c

IsDigits(s) == s # <<>> /\ \A k \in 1..Len(s) : IsDigit(s[k])

\* the number a string of digits denotes
RECURSIVE DigitsValue(_)
DigitsValue(s) ==
    IF s = <<>> THEN 0 ELSE 10 * DigitsValue(DropLast(s)) + DigitValue(s[Len(s)])

\* a decimal integer: digits, after a sign or without one
DenotesInteger(t) ==
    IF t # <<>> /\ Head(t) \in {"+", "-"} THEN IsDigits(Tail(t)) ELSE IsDigits(t)

IntegerValue(t) ==
    IF Head(t) = "-" THEN 0 - DigitsValue(Tail(t))
    ELSE IF Head(t) = "+" THEN DigitsValue(Tail(t))
    ELSE DigitsValue(t)

\* the numeral that str() writes: no plus sign, no leading zero, and a minus
\* sign only before a number other than zero
IsCanonical(t) ==
    LET d == IF t # <<>> /\ Head(t) = "-" THEN Tail(t) ELSE t
    IN  /\ IsDigits(d)
        /\ Len(d) = 1 \/ Head(d) # "0"
        /\ t # d => d # <<"0">>

InRange(t) == DenotesInteger(t) /\ IntegerValue(t) >= 0 - 5 /\ IntegerValue(t) <= 222

\* the tokens taken for good: the numerals of the integers in range, all of
\* them or those that str() writes
GoodToken(t, canonical) == InRange(t) /\ (canonical => IsCanonical(t))

\* The step of the loop body on a pair of equal names: when every token is
\* good the qualities are the characters 33 + v in token order, and else a
\* FormatError reports the read name and the first token that is not good,
\* and the read is not yielded.
DecodesBy(canonical) ==
    (reader = "FastaQualReader" /\ pc = "body" /\ ~NamesDiffer(read1, read2)) =>
        LET tokens == Split(read2.sequence)
            bad == {k \in 1..Len(tokens) : ~GoodToken(tokens[k], canonical)}
        IN  IF bad = {}
            THEN /\ pc' = "yield"
                 /\ call'.qualities =
                        [k \in 1..Len(tokens) |-> Chr(33 + IntegerValue(tokens[k]))]
            ELSE /\ pc' = "error"
                 /\ error' = FormatError("Found invalid quality value",
                        <<read1.name, tokens[CHOOSE k \in bad : \A m \in bad : k <= m]>>)
                 /\ yielded' = yielded

\* C10 as stated: every token that denotes a decimal integer v with
\* -5 <= v <= 222 decodes to the character of code 33 + v, one character per
\* token in token order; any other token raises a FormatError with the read
\* name and the token, and the read is not yielded.
C10_DecimalIntegers == [][DecodesBy(FALSE)]_vars

\* C10: a token decodes, to the character of code 33 + v, when it is the
\* numeral str() writes for an integer v with -5 <= v <= 222 (no plus sign,
\* no leading zero, no "-0"); the decoded string has one character per token
\* in token order; any other token raises a FormatError with the read name
\* and the token, and the read is not yielded.
C10_CanonicalNumerals == [][DecodesBy(TRUE)]_vars

\* "0 5" was decoded to "!&" and yielded, and the token 05 of the next read
\* was refused
C10_Witness ==
    /\ reader = "FastaQualReader"
    /\ pc = "error"
    /\ Len(yielded) >= 1
    /\ yielded[1].qualities = <<"!", "&">>
    /\ error = FormatError("Found invalid quality value", << <<"a", "1">>, <<"0", "5">> >>)

-----------------------------------------------------------------------------
(* guess_format_from_name and get_format *)

UpperCase ==
    <<"A", "B", "C", "D", "E", "F", "G", "H", "I", "J", "K", "L", "M",
      "N", "O", "P", "Q", "R", "S", "T", "U", "V", "W", "X", "Y", "Z">>

LowerCase ==
    <<"a", "b", "c", "d", "e", "f", "g", "h", "i", "j", "k", "l", "m",
      "n", "o", "p", "q", "r", "s", "t", "u", "v", "w", "x", "y", "z">>

\* The characters whose lower case is one other character, in runs
\* <<first, last, step, d>>: chr(n) gives chr(n + d) for n = first,
\* first + step, ... up to last.
LowerRuns ==
    { <<65, 90, 1, 32>>, <<192, 214, 1, 32>>, <<216, 222, 1, 32>>,
      <<256, 302, 2, 1>>, <<306, 310, 2, 1>>, <<313, 327, 2, 1>>,
      <<330, 374, 2, 1>>, <<376, 376, 1, -121>>, <<377, 381, 2, 1>>,
      <<385, 385, 1, 210>>, <<386, 388, 2, 1>>, <<390, 390, 1, 206>>,
      <<391, 391, 1, 1>>, <<393, 394, 1, 205>>, <<395, 395, 1, 1>>,
      <<398, 398, 1, 79>>, <<399, 399, 1, 202>>, <<400, 400, 1, 203>>,
      <<401, 401, 1, 1>>, <<403, 403, 1, 205>>, <<404, 404, 1, 207>>,
      <<406, 406, 1, 211>>, <<407, 407, 1, 209>>, <<408, 408, 1, 1>>,
      <<412, 412, 1, 211>>, <<413, 413, 1, 213>>, <<415, 415, 1, 214>>,
      <<416, 420, 2, 1>>, <<422, 422, 1, 218>>, <<423, 423, 1, 1>>,
      <<425, 425, 1, 218>>, <<428, 428, 1, 1>>, <<430, 430, 1, 218>>,
      <<431, 431, 1, 1>>, <<433, 434, 1, 217>>, <<435, 437, 2, 1>>,
      <<439, 439, 1, 219>>, <<440, 440, 1, 1>>, <<444, 444, 1, 1>>,
      <<452, 452, 1, 2>>, <<453, 453, 1, 1>>, <<455, 455, 1, 2>>,
      <<456, 456, 1, 1>>, <<458, 458, 1, 2>>, <<459, 475, 2, 1>>,
      <<478, 494, 2, 1>>, <<497, 497, 1, 2>>, <<498, 500, 2, 1>>,
      <<502, 502, 1, -97>>, <<503, 503, 1, -56>>, <<504, 542, 2, 1>>,
      <<544, 544, 1, -130>>, <<546, 562, 2, 1>>, <<570, 570, 1, 10795>>,
      <<571, 571, 1, 1>>, <<573, 573, 1, -163>>, <<574, 574, 1, 10792>>,
      <<577, 577, 1, 1>>, <<579, 579, 1, -195>>, <<580, 580, 1, 69>>,
      <<581, 581, 1, 71>>, <<582, 590, 2, 1>>, <<880, 882, 2, 1>>,
      <<886, 886, 1, 1>>, <<895, 895, 1, 116>>, <<902, 902, 1, 38>>,
      <<904, 906, 1, 37>>, <<908, 908, 1, 64>>, <<910, 911, 1, 63>>,
      <<913, 929, 1, 32>>, <<932, 939, 1, 32>>, <<975, 975, 1, 8>>,
      <<984, 1006, 2, 1>>, <<1012, 1012, 1, -60>>, <<1015, 1015, 1, 1>>,
      <<1017, 1017, 1, -7>>, <<1018, 1018, 1, 1>>, <<1021, 1023, 1, -130>>,
      <<1024, 1039, 1, 80>>, <<1040, 1071, 1, 32>>, <<1120, 1152, 2, 1>>,
      <<1162, 1214, 2, 1>>, <<1216, 1216, 1, 15>>, <<1217, 1229, 2, 1>>,
      <<1232, 1326, 2, 1>>, <<1329, 1366, 1, 48>>, <<4256, 4293, 1, 7264>>,
      <<4295, 4295, 1, 7264>>, <<4301, 4301, 1, 7264>>,
      <<5024, 5103, 1, 38864>>, <<5104, 5109, 1, 8>>,
      <<7312, 7354, 1, -3008>>, <<7357, 7359, 1, -3008>>,
      <<7680, 7828, 2, 1>>, <<7838, 7838, 1, -7615>>, <<7840, 7934, 2, 1>>,
      <<7944, 7951, 1, -8>>, <<7960, 7965, 1, -8>>, <<7976, 7983, 1, -8>>,
      <<7992, 7999, 1, -8>>, <<8008, 8013, 1, -8>>, <<8025, 8031, 2, -8>>,
      <<8040, 8047, 1, -8>>, <<8072, 8079, 1, -8>>, <<8088, 8095, 1, -8>>,
      <<8104, 8111, 1, -8>>, <<8120, 8121, 1, -8>>, <<8122, 8123, 1, -74>>,
      <<8124, 8124, 1, -9>>, <<8136, 8139, 1, -86>>, <<8140, 8140, 1, -9>>,
      <<8152, 8153, 1, -8>>, <<8154, 8155, 1, -100>>, <<8168, 8169, 1, -8>>,
      <<8170, 8171, 1, -112>>, <<8172, 8172, 1, -7>>, <<8184, 8185, 1, -128>>,
      <<8186, 8187, 1, -126>>, <<8188, 8188, 1, -9>>,
      <<8486, 8486, 1, -7517>>, <<8490, 8490, 1, -8383>>,
      <<8491, 8491, 1, -8262>>, <<8498, 8498, 1, 28>>, <<8544, 8559, 1, 16>>,
      <<8579, 8579, 1, 1>>, <<9398, 9423, 1, 26>>, <<11264, 11311, 1, 48>>,
      <<11360, 11360, 1, 1>>, <<11362, 11362, 1, -10743>>,
      <<11363, 11363, 1, -3814>>, <<11364, 11364, 1, -10727>>,
      <<11367, 11371, 2, 1>>, <<11373, 11373, 1, -10780>>,
      <<11374, 11374, 1, -10749>>, <<11375, 11375, 1, -10783>>,
      <<11376, 11376, 1, -10782>>, <<11378, 11378, 1, 1>>,
      <<11381, 11381, 1, 1>>, <<11390, 11391, 1, -10815>>,
      <<11392, 11490, 2, 1>>, <<11499, 11501, 2, 1>>, <<11506, 11506, 1, 1>>,
      <<42560, 42604, 2, 1>>, <<42624, 42650, 2, 1>>, <<42786, 42798, 2, 1>>,
      <<42802, 42862, 2, 1>>, <<42873, 42875, 2, 1>>,
      <<42877, 42877, 1, -35332>>, <<42878, 42886, 2, 1>>,
      <<42891, 42891, 1, 1>>, <<42893, 42893, 1, -42280>>,
      <<42896, 42898, 2, 1>>, <<42902, 42920, 2, 1>>,
      <<42922, 42922, 1, -42308>>, <<42923, 42923, 1, -42319>>,
      <<42924, 42924, 1, -42315>>, <<42925, 42925, 1, -42305>>,
      <<42926, 42926, 1, -42308>>, <<42928, 42928, 1, -42258>>,
      <<42929, 42929, 1, -42282>>, <<42930, 42930, 1, -42261>>,
      <<42931, 42931, 1, 928>>, <<42932, 42946, 2, 1>>,
      <<42948, 42948, 1, -48>>, <<42949, 42949, 1, -42307>>,
      <<42950, 42950, 1, -35384>>, <<42951, 42953, 2, 1>>,
      <<42960, 42960, 1, 1>>, <<42966, 42968, 2, 1>>, <<42997, 42997, 1, 1>>,
      <<65313, 65338, 1, 32>>, <<66560, 66599, 1, 40>>,
      <<66736, 66771, 1, 40>>, <<66928, 66938, 1, 39>>,
      <<66940, 66954, 1, 39>>, <<66956, 66962, 1, 39>>,
      <<66964, 66965, 1, 39>>, <<68736, 68786, 1, 64>>,
      <<71840, 71871, 1, 32>>, <<93760, 93791, 1, 32>>,
      <<125184, 125217, 1, 34>> }

\* each such character with its lower case; the capital I with a dot above
\* gives two characters
LowerTable ==
    UNION { { <<Chr(n), <<Chr(n + r[4])>> >> :
                  n \in {m \in r[1]..r[2] : (m - r[1]) % r[3] = 0} } :
            r \in LowerRuns }
        \cup { <<Chr(304), <<"i", Chr(775)>> >> }

\* the characters of code 32 to 126 and the line breaks, the capitals excepted
Caseless ==
    ({Printable[k] : k \in 1..94} \cup {" ", "\n", "\r", "\t"})
        \ {UpperCase[n] : n \in 1..26}

\* the capital sigma and its two lower cases
Sigma == Chr(931)

SmallSigma == Chr(963)

FinalSigma == Chr(962)

\* the runs <<first, last, step>> of the codes of the case-ignorable
\* characters: the marks, the modifier letters and the punctuation a word
\* may hold
CaseIgnorableRuns ==
    { <<39, 39, 1>>, <<46, 46, 1>>, <<58, 58, 1>>, <<94, 96, 2>>,
      <<168, 168, 1>>, <<173, 175, 2>>, <<180, 180, 1>>, <<183, 184, 1>>,
      <<688, 879, 1>>, <<884, 885, 1>>, <<890, 890, 1>>, <<900, 901, 1>>,
      <<903, 903, 1>>, <<1155, 1161, 1>>, <<1369, 1369, 1>>,
      <<1375, 1375, 1>>, <<1425, 1469, 1>>, <<1471, 1473, 2>>,
      <<1474, 1476, 2>>, <<1477, 1479, 2>>, <<1524, 1524, 1>>,
      <<1536, 1541, 1>>, <<1552, 1562, 1>>, <<1564, 1564, 1>>,
      <<1600, 1600, 1>>, <<1611, 1631, 1>>, <<1648, 1648, 1>>,
      <<1750, 1757, 1>>, <<1759, 1768, 1>>, <<1770, 1773, 1>>,
      <<1807, 1809, 2>>, <<1840, 1866, 1>>, <<1958, 1968, 1>>,
      <<2027, 2037, 1>>, <<2042, 2042, 1>>, <<2045, 2045, 1>>,
      <<2070, 2093, 1>>, <<2137, 2139, 1>>, <<2184, 2184, 1>>,
      <<2192, 2193, 1>>, <<2200, 2207, 1>>, <<2249, 2306, 1>>,
      <<2362, 2364, 2>>, <<2369, 2376, 1>>, <<2381, 2381, 1>>,
      <<2385, 2391, 1>>, <<2402, 2403, 1>>, <<2417, 2417, 1>>,
      <<2433, 2433, 1>>, <<2492, 2492, 1>>, <<2497, 2500, 1>>,
      <<2509, 2509, 1>>, <<2530, 2531, 1>>, <<2558, 2558, 1>>,
      <<2561, 2562, 1>>, <<2620, 2620, 1>>, <<2625, 2626, 1>>,
      <<2631, 2632, 1>>, <<2635, 2637, 1>>, <<2641, 2641, 1>>,
      <<2672, 2673, 1>>, <<2677, 2677, 1>>, <<2689, 2690, 1>>,
      <<2748, 2748, 1>>, <<2753, 2757, 1>>, <<2759, 2760, 1>>,
      <<2765, 2765, 1>>, <<2786, 2787, 1>>, <<2810, 2815, 1>>,
      <<2817, 2817, 1>>, <<2876, 2876, 1>>, <<2879, 2881, 2>>,
      <<2882, 2884, 1>>, <<2893, 2893, 1>>, <<2901, 2902, 1>>,
      <<2914, 2915, 1>>, <<2946, 2946, 1>>, <<3008, 3008, 1>>,
      <<3021, 3021, 1>>, <<3072, 3072, 1>>, <<3076, 3076, 1>>,
      <<3132, 3134, 2>>, <<3135, 3136, 1>>, <<3142, 3144, 1>>,
      <<3146, 3149, 1>>, <<3157, 3158, 1>>, <<3170, 3171, 1>>,
      <<3201, 3201, 1>>, <<3260, 3260, 1>>, <<3263, 3263, 1>>,
      <<3270, 3270, 1>>, <<3276, 3277, 1>>, <<3298, 3299, 1>>,
      <<3328, 3329, 1>>, <<3387, 3388, 1>>, <<3393, 3396, 1>>,
      <<3405, 3405, 1>>, <<3426, 3427, 1>>, <<3457, 3457, 1>>,
      <<3530, 3530, 1>>, <<3538, 3540, 1>>, <<3542, 3542, 1>>,
      <<3633, 3633, 1>>, <<3636, 3642, 1>>, <<3654, 3662, 1>>,
      <<3761, 3761, 1>>, <<3764, 3772, 1>>, <<3782, 3784, 2>>,
      <<3785, 3789, 1>>, <<3864, 3865, 1>>, <<3893, 3897, 2>>,
      <<3953, 3966, 1>>, <<3968, 3972, 1>>, <<3974, 3975, 1>>,
      <<3981, 3991, 1>>, <<3993, 4028, 1>>, <<4038, 4038, 1>>,
      <<4141, 4144, 1>>, <<4146, 4151, 1>>, <<4153, 4154, 1>>,
      <<4157, 4158, 1>>, <<4184, 4185, 1>>, <<4190, 4192, 1>>,
      <<4209, 4212, 1>>, <<4226, 4226, 1>>, <<4229, 4230, 1>>,
      <<4237, 4237, 1>>, <<4253, 4253, 1>>, <<4348, 4348, 1>>,
      <<4957, 4959, 1>>, <<5906, 5908, 1>>, <<5938, 5939, 1>>,
      <<5970, 5971, 1>>, <<6002, 6003, 1>>, <<6068, 6069, 1>>,
      <<6071, 6077, 1>>, <<6086, 6086, 1>>, <<6089, 6099, 1>>,
      <<6103, 6103, 1>>, <<6109, 6109, 1>>, <<6155, 6159, 1>>,
      <<6211, 6211, 1>>, <<6277, 6278, 1>>, <<6313, 6313, 1>>,
      <<6432, 6434, 1>>, <<6439, 6440, 1>>, <<6450, 6450, 1>>,
      <<6457, 6459, 1>>, <<6679, 6680, 1>>, <<6683, 6683, 1>>,
      <<6742, 6744, 2>>, <<6745, 6750, 1>>, <<6752, 6754, 2>>,
      <<6757, 6764, 1>>, <<6771, 6780, 1>>, <<6783, 6783, 1>>,
      <<6823, 6823, 1>>, <<6832, 6862, 1>>, <<6912, 6915, 1>>,
      <<6964, 6966, 2>>, <<6967, 6970, 1>>, <<6972, 6972, 1>>,
      <<6978, 6978, 1>>, <<7019, 7027, 1>>, <<7040, 7041, 1>>,
      <<7074, 7077, 1>>, <<7080, 7081, 1>>, <<7083, 7085, 1>>,
      <<7142, 7144, 2>>, <<7145, 7145, 1>>, <<7149, 7151, 2>>,
      <<7152, 7153, 1>>, <<7212, 7219, 1>>, <<7222, 7223, 1>>,
      <<7288, 7293, 1>>, <<7376, 7378, 1>>, <<7380, 7392, 1>>,
      <<7394, 7400, 1>>, <<7405, 7405, 1>>, <<7412, 7412, 1>>,
      <<7416, 7417, 1>>, <<7468, 7530, 1>>, <<7544, 7544, 1>>,
      <<7579, 7679, 1>>, <<8125, 8127, 2>>, <<8128, 8129, 1>>,
      <<8141, 8143, 1>>, <<8157, 8159, 1>>, <<8173, 8175, 1>>,
      <<8189, 8190, 1>>, <<8203, 8207, 1>>, <<8216, 8217, 1>>,
      <<8228, 8228, 1>>, <<8231, 8231, 1>>, <<8234, 8238, 1>>,
      <<8288, 8292, 1>>, <<8294, 8303, 1>>, <<8305, 8305, 1>>,
      <<8319, 8319, 1>>, <<8336, 8348, 1>>, <<8400, 8432, 1>>,
      <<11388, 11389, 1>>, <<11503, 11505, 1>>, <<11631, 11631, 1>>,
      <<11647, 11647, 1>>, <<11744, 11775, 1>>, <<11823, 11823, 1>>,
      <<12293, 12293, 1>>, <<12330, 12333, 1>>, <<12337, 12341, 1>>,
      <<12347, 12347, 1>>, <<12441, 12446, 1>>, <<12540, 12542, 1>>,
      <<40981, 40981, 1>>, <<42232, 42237, 1>>, <<42508, 42508, 1>>,
      <<42607, 42610, 1>>, <<42612, 42621, 1>>, <<42623, 42623, 1>>,
      <<42652, 42655, 1>>, <<42736, 42737, 1>>, <<42752, 42785, 1>>,
      <<42864, 42864, 1>>, <<42888, 42890, 1>>, <<42994, 42996, 1>>,
      <<43000, 43001, 1>>, <<43010, 43010, 1>>, <<43014, 43014, 1>>,
      <<43019, 43019, 1>>, <<43045, 43046, 1>>, <<43052, 43052, 1>>,
      <<43204, 43205, 1>>, <<43232, 43249, 1>>, <<43263, 43263, 1>>,
      <<43302, 43309, 1>>, <<43335, 43345, 1>>, <<43392, 43394, 1>>,
      <<43443, 43443, 1>>, <<43446, 43449, 1>>, <<43452, 43453, 1>>,
      <<43471, 43471, 1>>, <<43493, 43494, 1>>, <<43561, 43566, 1>>,
      <<43569, 43570, 1>>, <<43573, 43574, 1>>, <<43587, 43587, 1>>,
      <<43596, 43596, 1>>, <<43632, 43632, 1>>, <<43644, 43644, 1>>,
      <<43696, 43698, 2>>, <<43699, 43700, 1>>, <<43703, 43704, 1>>,
      <<43710, 43711, 1>>, <<43713, 43713, 1>>, <<43741, 43741, 1>>,
      <<43756, 43757, 1>>, <<43763, 43764, 1>>, <<43766, 43766, 1>>,
      <<43867, 43871, 1>>, <<43881, 43883, 1>>, <<44005, 44005, 1>>,
      <<44008, 44008, 1>>, <<44013, 44013, 1>>, <<64286, 64286, 1>>,
      <<64434, 64450, 1>>, <<65024, 65039, 1>>, <<65043, 65043, 1>>,
      <<65056, 65071, 1>>, <<65106, 65106, 1>>, <<65109, 65109, 1>>,
      <<65279, 65279, 1>>, <<65287, 65287, 1>>, <<65294, 65294, 1>>,
      <<65306, 65306, 1>>, <<65342, 65344, 2>>, <<65392, 65392, 1>>,
      <<65438, 65439, 1>>, <<65507, 65507, 1>>, <<65529, 65531, 1>>,
      <<66045, 66045, 1>>, <<66272, 66272, 1>>, <<66422, 66426, 1>>,
      <<67456, 67461, 1>>, <<67463, 67504, 1>>, <<67506, 67514, 1>>,
      <<68097, 68099, 1>>, <<68101, 68102, 1>>, <<68108, 68111, 1>>,
      <<68152, 68154, 1>>, <<68159, 68159, 1>>, <<68325, 68326, 1>>,
      <<68900, 68903, 1>>, <<69291, 69292, 1>>, <<69446, 69456, 1>>,
      <<69506, 69509, 1>>, <<69633, 69633, 1>>, <<69688, 69702, 1>>,
      <<69744, 69744, 1>>, <<69747, 69748, 1>>, <<69759, 69761, 1>>,
      <<69811, 69814, 1>>, <<69817, 69818, 1>>, <<69821, 69821, 1>>,
      <<69826, 69826, 1>>, <<69837, 69837, 1>>, <<69888, 69890, 1>>,
      <<69927, 69931, 1>>, <<69933, 69940, 1>>, <<70003, 70003, 1>>,
      <<70016, 70017, 1>>, <<70070, 70078, 1>>, <<70089, 70092, 1>>,
      <<70095, 70095, 1>>, <<70191, 70193, 1>>, <<70196, 70198, 2>>,
      <<70199, 70199, 1>>, <<70206, 70206, 1>>, <<70367, 70367, 1>>,
      <<70371, 70378, 1>>, <<70400, 70401, 1>>, <<70459, 70460, 1>>,
      <<70464, 70464, 1>>, <<70502, 70508, 1>>, <<70512, 70516, 1>>,
      <<70712, 70719, 1>>, <<70722, 70724, 1>>, <<70726, 70726, 1>>,
      <<70750, 70750, 1>>, <<70835, 70840, 1>>, <<70842, 70842, 1>>,
      <<70847, 70848, 1>>, <<70850, 70851, 1>>, <<71090, 71093, 1>>,
      <<71100, 71101, 1>>, <<71103, 71104, 1>>, <<71132, 71133, 1>>,
      <<71219, 71226, 1>>, <<71229, 71231, 2>>, <<71232, 71232, 1>>,
      <<71339, 71341, 2>>, <<71344, 71349, 1>>, <<71351, 71351, 1>>,
      <<71453, 71455, 1>>, <<71458, 71461, 1>>, <<71463, 71467, 1>>,
      <<71727, 71735, 1>>, <<71737, 71738, 1>>, <<71995, 71996, 1>>,
      <<71998, 71998, 1>>, <<72003, 72003, 1>>, <<72148, 72151, 1>>,
      <<72154, 72155, 1>>, <<72160, 72160, 1>>, <<72193, 72202, 1>>,
      <<72243, 72248, 1>>, <<72251, 72254, 1>>, <<72263, 72263, 1>>,
      <<72273, 72278, 1>>, <<72281, 72283, 1>>, <<72330, 72342, 1>>,
      <<72344, 72345, 1>>, <<72752, 72758, 1>>, <<72760, 72765, 1>>,
      <<72767, 72767, 1>>, <<72850, 72871, 1>>, <<72874, 72880, 1>>,
      <<72882, 72883, 1>>, <<72885, 72886, 1>>, <<73009, 73014, 1>>,
      <<73018, 73020, 2>>, <<73021, 73023, 2>>, <<73024, 73029, 1>>,
      <<73031, 73031, 1>>, <<73104, 73105, 1>>, <<73109, 73111, 2>>,
      <<73459, 73460, 1>>, <<78896, 78904, 1>>, <<92912, 92916, 1>>,
      <<92976, 92982, 1>>, <<92992, 92995, 1>>, <<94031, 94031, 1>>,
      <<94095, 94111, 1>>, <<94176, 94177, 1>>, <<94179, 94180, 1>>,
      <<110576, 110579, 1>>, <<110581, 110587, 1>>, <<110589, 110590, 1>>,
      <<113821, 113822, 1>>, <<113824, 113827, 1>>, <<118528, 118573, 1>>,
      <<118576, 118598, 1>>, <<119143, 119145, 1>>, <<119155, 119170, 1>>,
      <<119173, 119179, 1>>, <<119210, 119213, 1>>, <<119362, 119364, 1>>,
      <<121344, 121398, 1>>, <<121403, 121452, 1>>, <<121461, 121461, 1>>,
      <<121476, 121476, 1>>, <<121499, 121503, 1>>, <<121505, 121519, 1>>,
      <<122880, 122886, 1>>, <<122888, 122904, 1>>, <<122907, 122913, 1>>,
      <<122915, 122916, 1>>, <<122918, 122922, 1>>, <<123184, 123197, 1>>,
      <<123566, 123566, 1>>, <<123628, 123631, 1>>, <<125136, 125142, 1>>,
      <<125252, 125259, 1>>, <<127995, 127999, 1>>, <<917505, 917505, 1>>,
      <<917536, 917631, 1>>, <<917760, 917999, 1>> }

\* the runs <<first, last, step>> of the codes of the cased characters that
\* are not case-ignorable
CasedRuns ==
    { <<65, 90, 1>>, <<97, 122, 1>>, <<170, 170, 1>>, <<181, 181, 1>>,
      <<186, 186, 1>>, <<192, 214, 1>>, <<216, 246, 1>>, <<248, 442, 1>>,
      <<444, 447, 1>>, <<452, 659, 1>>, <<661, 687, 1>>, <<880, 883, 1>>,
      <<886, 887, 1>>, <<891, 893, 1>>, <<895, 895, 1>>, <<902, 904, 2>>,
      <<905, 906, 1>>, <<908, 910, 2>>, <<911, 929, 1>>, <<931, 1013, 1>>,
      <<1015, 1153, 1>>, <<1162, 1327, 1>>, <<1329, 1366, 1>>,
      <<1376, 1416, 1>>, <<4256, 4293, 1>>, <<4295, 4295, 1>>,
      <<4301, 4301, 1>>, <<4304, 4346, 1>>, <<4349, 4351, 1>>,
      <<5024, 5109, 1>>, <<5112, 5117, 1>>, <<7296, 7304, 1>>,
      <<7312, 7354, 1>>, <<7357, 7359, 1>>, <<7424, 7467, 1>>,
      <<7531, 7543, 1>>, <<7545, 7578, 1>>, <<7680, 7957, 1>>,
      <<7960, 7965, 1>>, <<7968, 8005, 1>>, <<8008, 8013, 1>>,
      <<8016, 8023, 1>>, <<8025, 8031, 2>>, <<8032, 8061, 1>>,
      <<8064, 8116, 1>>, <<8118, 8124, 1>>, <<8126, 8126, 1>>,
      <<8130, 8132, 1>>, <<8134, 8140, 1>>, <<8144, 8147, 1>>,
      <<8150, 8155, 1>>, <<8160, 8172, 1>>, <<8178, 8180, 1>>,
      <<8182, 8188, 1>>, <<8450, 8450, 1>>, <<8455, 8455, 1>>,
      <<8458, 8467, 1>>, <<8469, 8469, 1>>, <<8473, 8477, 1>>,
      <<8484, 8490, 2>>, <<8491, 8493, 1>>, <<8495, 8500, 1>>,
      <<8505, 8505, 1>>, <<8508, 8511, 1>>, <<8517, 8521, 1>>,
      <<8526, 8526, 1>>, <<8544, 8575, 1>>, <<8579, 8580, 1>>,
      <<9398, 9449, 1>>, <<11264, 11387, 1>>, <<11390, 11492, 1>>,
      <<11499, 11502, 1>>, <<11506, 11507, 1>>, <<11520, 11557, 1>>,
      <<11559, 11559, 1>>, <<11565, 11565, 1>>, <<42560, 42605, 1>>,
      <<42624, 42651, 1>>, <<42786, 42863, 1>>, <<42865, 42887, 1>>,
      <<42891, 42894, 1>>, <<42896, 42954, 1>>, <<42960, 42961, 1>>,
      <<42963, 42965, 2>>, <<42966, 42969, 1>>, <<42997, 42998, 1>>,
      <<43002, 43002, 1>>, <<43824, 43866, 1>>, <<43872, 43880, 1>>,
      <<43888, 43967, 1>>, <<64256, 64262, 1>>, <<64275, 64279, 1>>,
      <<65313, 65338, 1>>, <<65345, 65370, 1>>, <<66560, 66639, 1>>,
      <<66736, 66771, 1>>, <<66776, 66811, 1>>, <<66928, 66938, 1>>,
      <<66940, 66954, 1>>, <<66956, 66962, 1>>, <<66964, 66965, 1>>,
      <<66967, 66977, 1>>, <<66979, 66993, 1>>, <<66995, 67001, 1>>,
      <<67003, 67004, 1>>, <<68736, 68786, 1>>, <<68800, 68850, 1>>,
      <<71840, 71903, 1>>, <<93760, 93823, 1>>, <<119808, 119892, 1>>,
      <<119894, 119964, 1>>, <<119966, 119967, 1>>, <<119970, 119970, 1>>,
      <<119973, 119974, 1>>, <<119977, 119980, 1>>, <<119982, 119993, 1>>,
      <<119995, 119997, 2>>, <<119998, 120003, 1>>, <<120005, 120069, 1>>,
      <<120071, 120074, 1>>, <<120077, 120084, 1>>, <<120086, 120092, 1>>,
      <<120094, 120121, 1>>, <<120123, 120126, 1>>, <<120128, 120132, 1>>,
      <<120134, 120134, 1>>, <<120138, 120144, 1>>, <<120146, 120485, 1>>,
      <<120488, 120512, 1>>, <<120514, 120538, 1>>, <<120540, 120570, 1>>,
      <<120572, 120596, 1>>, <<120598, 120628, 1>>, <<120630, 120654, 1>>,
      <<120656, 120686, 1>>, <<120688, 120712, 1>>, <<120714, 120744, 1>>,
      <<120746, 120770, 1>>, <<120772, 120779, 1>>, <<122624, 122633, 1>>,
      <<122635, 122654, 1>>, <<125184, 125251, 1>>, <<127280, 127305, 1>>,
      <<127312, 127337, 1>>, <<127344, 127369, 1>> }

\* the characters of the runs rs
CharactersOf(rs) ==
    UNION { { Chr(n) : n \in {m \in r[1]..r[2] : (m - r[1]) % r[3] = 0} } : r \in rs }

\* the cased characters; a character that is case-ignorable as well is
\* never asked for its case and is left out
Cased == CharactersOf(CasedRuns)

\* the characters a word may hold without being ended by them
CaseIgnorable == CharactersOf(CaseIgnorableRuns)

\* a capital sigma is final when the nearest character before it that is
\* not case-ignorable is cased and the nearest such character after it is
\* not cased, or there is none
IsFinalSigma(s, k) ==
    LET before == {j \in 1..(k - 1) : s[j] \notin CaseIgnorable}
        after == {j \in (k + 1)..Len(s) : s[j] \notin CaseIgnorable}
    IN  /\ before # {}
        /\ s[CHOOSE j \in before : \A m \in before : m <= j] \in Cased
        /\ \/ after = {}
           \/ s[CHOOSE j \in after : \A m \in after : j <= m] \notin Cased

\* the lower case of the character at place k of s
LowerAt(s, k) ==
    IF \E n \in 1..26 : UpperCase[n] = s[k]
    THEN <<LowerCase[CHOOSE n \in 1..26 : UpperCase[n] = s[k]]>>
    ELSE IF s[k] \in Caseless THEN <<s[k]>>
    ELSE IF s[k] = Sigma
    THEN IF IsFinalSigma(s, k) THEN <<FinalSigma>> ELSE <<SmallSigma>>
    ELSE IF \E p \in LowerTable : p[1] = s[k]
    THEN (CHOOSE p \in LowerTable : p[1] = s[k])[2]
    ELSE <<s[k]>>

\* str.lower()
Lower(s) == Join([k \in 1..Len(s) |-> LowerAt(s, k)], <<>>)

\* s.endswith(t)
HasSuffix(s, t) == Len(t) <= Len(s) /\ SubSeq(s, Len(s) - Len(t) + 1, Len(s)) = t

\* the format names and the extensions of the tables
Fasta == <<"f", "a", "s", "t", "a">>

Fastq == <<"f", "a", "s", "t", "q">>

SraFastq == <<"s", "r", "a", "-", "f", "a", "s", "t", "q">>

Sam == <<"s", "a", "m">>

Bam == <<"b", "a", "m">>

FastaExtensions ==
    { <<".", "f", "a", "s", "t", "a">>, <<".", "f", "a">>, <<".", "f", "n", "a">>, <<".", "c", "s", "f", "a", "s", "t", "a">>, <<".", "c", "s", "f", "a">> }

FastqExtensions == { <<".", "f", "a", "s", "t", "q">>, <<".", "f", "q">> }

SamExtensions == { <<".", "s", "a", "m">>, <<".", "b", "a", "m">> }

CompressionSuffixes == << <<".", "g", "z">>, <<".", "b", "z", "2">>, <<".", "x", "z">> >>

\* os.path.splitext: the extension starts at the last dot, unless only dots
\* come before it
SplitExt(s) ==
    LET dots == {k \in 1..Len(s) : s[k] = "."}
        last == CHOOSE k \in dots : \A m \in dots : m <= k
    IN  IF dots = {} \/ \A k \in 1..(last - 1) : s[k] = "."
        THEN [name |-> s, ext |-> <<>>]
        ELSE [name |-> SubSeq(s, 1, last - 1), ext |-> SubSeq(s, last, Len(s))]

\* splitext_compressed(name): the first compression suffix the name ends
\* with is taken off, then the extension is split off the rest
splitext_compressed(s) ==
    LET found == {k \in 1..Len(CompressionSuffixes) : HasSuffix(s, CompressionSuffixes[k])}
        ext2 == IF found = {} THEN None
                ELSE CompressionSuffixes[CHOOSE k \in found : \A m \in found : k <= m]
        rest == IF found = {} THEN s ELSE SubSeq(s, 1, Len(s) - Len(ext2))
    IN  [name |-> SplitExt(rest).name, ext1 |-> SplitExt(rest).ext, ext2 |-> ext2]

\* A `path` argument: a str, or an object that has a name attribute or has
\* none (name is None then).
Path(kind, n) == [kind |-> kind, name |-> n]

ValueError(m) == [type |-> "ValueError", msg |-> m, args |-> <<>>]

\* `ext` is read before any assignment to it
UnboundLocalError ==
    [type |-> "UnboundLocalError",
     msg |-> "local variable 'ext' referenced before assignment", args |-> <<>>]

\* `raise UnknownFileType("... file name extension {1!r} not recognized")`
NotRecognized(path, ext) ==
    [type |-> "UnknownFileType", msg |-> "file name extension not recognized",
     args |-> <<path.name, ext>>]

\* `name = None; if isinstance(path, str): ... elif hasattr(path, "name"): ...`
NameOf(path) == path.name

ExtensionAsWritten(ext1) == ext1

\* `ext = ext1.lower()`
Extension(ext1) == Lower(ext1)

\* the chain of tests on ext, and what falls through it
FormatOfExtension(stem, ext) ==
    IF ext \in FastaExtensions THEN Fasta
    ELSE IF ext \in FastqExtensions \/ (ext = <<".", "t", "x", "t">> /\ HasSuffix(stem, <<"_", "s", "e", "q", "u", "e", "n", "c", "e">>))
    THEN Fastq
    ELSE IF ext \in SamExtensions THEN Rest(ext)
    ELSE None

\* guess_format_from_name(path, raise_on_failure): the value returned and
\* the error raised
guess_format_from_name(path, raise_on_failure) ==
    LET n == NameOf(path)
        named == n # None /\ n # <<>>
        parts == splitext_compressed(n)
        ext == Extension(parts.ext1)
        found == IF named THEN FormatOfExtension(parts.name, ext) ELSE None
    IN  IF found # None THEN [value |-> found, error |-> NoError]
        ELSE IF ~raise_on_failure THEN [value |-> None, error |-> NoError]
        ELSE IF named THEN [value |-> None, error |-> NotRecognized(path, ext)]
        ELSE [value |-> None, error |-> UnboundLocalError]

DefaultFormatSwapped(qualities) ==
    IF qualities = "True" THEN Fasta ELSE IF qualities = "False" THEN Fastq ELSE None

\* the format chosen when the name tells none: by `qualities`
DefaultFormat(qualities) ==
    IF qualities = "True" THEN Fastq ELSE IF qualities = "False" THEN Fasta ELSE None

\* `if fileformat == 'fastq' and qualities is False`
FastqWithoutQualities(format, qualities) == format = Fastq /\ qualities = "False"

\* the formatter class of a format, or the error
FormatClass(format, colorspace) ==
    IF Lower(format) = Fasta
    THEN [value |-> IF colorspace THEN "ColorspaceFastaFormat" ELSE "FastaFormat",
          error |-> NoError]
    ELSE IF Lower(format) = Fastq
    THEN [value |-> IF colorspace THEN "ColorspaceFastqFormat" ELSE "FastqFormat",
          error |-> NoError]
    ELSE [value |-> "None", error |-> UnknownFileType(<<Lower(format)>>)]

\* get_format(path, fileformat, colorspace, qualities): the class of the
\* formatter returned, and the error raised.  qualities is "True", "False"
\* or "None".
get_format(path, format, colorspace, qualities) ==
    LET guessed == IF format = None
                   THEN guess_format_from_name(path, qualities = "None")
                   ELSE [value |-> format, error |-> NoError]
        chosen == IF guessed.value = None THEN DefaultFormat(qualities) ELSE guessed.value
    IN  IF Raised(guessed.error) THEN [value |-> "None", error |-> guessed.error]
        ELSE IF chosen = None
        THEN [value |-> "None",
              error |-> [type |-> "UnknownFileType", msg |-> "Could not determine file type.",
                         args |-> <<>>]]
        ELSE IF FastqWithoutQualities(chosen, qualities)
        THEN [value |-> "None",
              error |-> ValueError("Output format cannot be FASTQ since no quality values are available.")]
        ELSE FormatClass(chosen, colorspace)

\* File names of the model, listed by the format their extension stands
\* for, and names that stand for none (the stem of a .txt file is taken as
\* written).
FastaNames ==
    { <<"x", ".", "f", "a", "s", "t", "a">>,
      <<"x", ".", "f", "a">>,
      <<"x", ".", "f", "n", "a">>,
      <<"x", ".", "c", "s", "f", "a", "s", "t", "a">>,
      <<"x", ".", "c", "s", "f", "a">>,
      <<"x", ".", "F", "A", "S", "T", "A">>,
      <<"x", ".", "F", "a">>,
      <<"x", ".", "f", "a", ".", "g", "z">>,
      <<"x", ".", "c", "s", "f", "a", "s", "t", "a", ".", "b", "z", "2">> }

FastqNames ==
    { <<"x", ".", "f", "a", "s", "t", "q">>,
      <<"x", ".", "f", "q">>,
      <<"x", "_", "s", "e", "q", "u", "e", "n", "c", "e", ".", "t", "x", "t">>,
      <<"x", ".", "F", "Q">>,
      <<"x", "_", "s", "e", "q", "u", "e", "n", "c", "e", ".", "T", "X", "T">>,
      <<"x", ".", "f", "a", "s", "t", "q", ".", "x", "z">>,
      <<"x", "_", "s", "e", "q", "u", "e", "n", "c", "e", ".", "t", "x", "t", ".", "g", "z">> }

SamNames == { <<"x", ".", "s", "a", "m">>,
      <<"x", ".", "S", "A", "M">>,
      <<"x", ".", "s", "a", "m", ".", "g", "z">> }

BamNames == { <<"x", ".", "b", "a", "m">>,
      <<"x", ".", "B", "a", "m">> }

OtherNames ==
    { <<"x", ".", "x", "y", "z">>,
      <<"x">>,
      <<"x", ".", "t", "x", "t">>,
      <<"x", ".", "f", "a", "s", "t", "a", ".", "x", "y", "z">>,
      <<"x", ".", "g", "z">>,
      <<"x", ".", "f", "q", ".", "z", "i", "p">>,
      <<"x", "f", "a", "s", "t", "a">>,
      <<"x", ".", "F", "chr(196)">>,
      <<"x", ".", "f", "a", ".", "G", "Z">>,
      <<"x", "_", "S", "E", "Q", "U", "E", "N", "C", "E", ".", "t", "x", "t">>,
      <<"x", "_", "S", "e", "q", "u", "e", "n", "c", "e", ".", "T", "X", "T", ".", "g", "z">> }

Names == FastaNames \cup FastqNames \cup SamNames \cup BamNames \cup OtherNames

\* the paths: each name as a str and as the name of a file object, the empty
\* str, and file objects with an empty name and with no name
Paths ==
    {Path(k, n) : k \in {"str", "file"}, n \in Names \cup {<<>>}} \cup {Path("file", None)}

\* the explicit values of the fileformat argument
Formats ==
    { None, Fasta, Fastq, SraFastq, Sam, <<"F", "A", "S", "T", "Q">>, <<"F", "a", "s", "t", "a">>, <<"x", "y", "z">> }

\* guess_format_from_name(path, raise_on_failure)
GuessFormat ==
    /\ reader = "guess_format_from_name"
    /\ pc = "new"
    /\ LET made == guess_format_from_name(call.path, call.raise_on_failure)
       IN  /\ obj' = made.value
           /\ error' = made.error
           /\ pc' = IF Raised(made.error) THEN "error" ELSE "made"
    /\ UNCHANGED <<reader, file1, file2, pos1, pos2, wrapVars, fastaVars, pairVars,
                   fileformat, observed, call, yielded>>

\* get_format(path, fileformat, colorspace, qualities)
GetFormat ==
    /\ reader = "get_format"
    /\ pc = "new"
    /\ LET made == get_format(call.path, call.fileformat, call.colorspace, call.qualities)
       IN  /\ obj' = made.value
           /\ error' = made.error
           /\ pc' = IF Raised(made.error) THEN "error" ELSE "made"
    /\ UNCHANGED <<reader, file1, file2, pos1, pos2, wrapVars, fastaVars, pairVars,
                   fileformat, observed, call, yielded>>

\* the state before a call: everything but reader and call is idle
BeforeCall ==
    /\ pc = "new"
    /\ file1 = <<>>
    /\ file2 = <<>>
    /\ delimiter = <<>>
    /\ pos1 = 0
    /\ pos2 = 0
    /\ first_line = None
    /\ delivered = FALSE
    /\ iterations = 0
    /\ name = None
    /\ seq = <<>>
    /\ idx = 0
    /\ read1 = NoRecord
    /\ read2 = NoRecord
    /\ calls1 = 0
    /\ calls2 = 0
    /\ fileformat = NoFormat
    /\ observed = <<>>
    /\ obj = NoRecord
    /\ yielded = <<>>
    /\ error = NoError

InitFormats ==
    \/ /\ reader = "guess_format_from_name"
       /\ \E path \in Paths, r \in BOOLEAN :
             call = [fn |-> "guess_format_from_name", path |-> path, raise_on_failure |-> r]
       /\ BeforeCall
    \/ /\ reader = "get_format"
       /\ \E path \in Paths, f \in Formats, c \in BOOLEAN, ql \in {"None", "True", "False"} :
             call = [fn |-> "get_format", path |-> path, fileformat |-> f,
                     colorspace |-> c, qualities |-> ql]
       /\ BeforeCall

NextFormats ==
    \/ GuessFormat
    \/ GetFormat

SpecFormats == InitFormats /\ [][NextFormats]_vars

-----------------------------------------------------------------------------
(* Claims on guess_format_from_name and get_format *)

Recognized == FastaNames \cup FastqNames \cup SamNames \cup BamNames

FormatterOf(format, colorspace) ==
    IF format = Fastq
    THEN IF colorspace THEN "ColorspaceFastqFormat" ELSE "FastqFormat"
    ELSE IF colorspace THEN "ColorspaceFastaFormat" ELSE "FastaFormat"

\* C12: get_format without an explicit format, on a path whose extension is
\* not recognized, returns the FASTQ formatter when qualities is True and
\* the FASTA formatter when it is False (the colorspace one when colorspace
\* is set), and raises UnknownFileType when qualities is not given.
C12_DefaultByQualities ==
    (/\ reader = "get_format"
     /\ pc # "new"
     /\ call.fileformat = None
     /\ call.path.name \in OtherNames) =>
        IF call.qualities = "True"
        THEN pc = "made" /\ obj = FormatterOf(Fastq, call.colorspace)
        ELSE IF call.qualities = "False"
        THEN pc = "made" /\ obj = FormatterOf(Fasta, call.colorspace)
        ELSE pc = "error" /\ error.type = "UnknownFileType"

\* out.xyz with qualities and colorspace gives the colorspace FASTQ formatter
C12_Witness ==
    /\ reader = "get_format"
    /\ pc = "made"
    /\ call.fileformat = None
    /\ call.path = Path("str", <<"x", ".", "x", "y", "z">>)
    /\ call.qualities = "True"
    /\ obj = "ColorspaceFastqFormat"

\* the format get_format resolves is fastq: given in some letter case, or
\* told by the name of the file
ResolvesToFastq ==
    IF call.fileformat # None THEN Lower(call.fileformat) = Fastq
    ELSE call.path.name \in FastqNames

\* C13: whenever the format get_format resolves is fastq, given explicitly
\* in any letter case it accepts or told by the extension, and qualities is
\* False, it raises ValueError and returns no formatter.
C13_FastqNeedsQualities ==
    (/\ reader = "get_format"
     /\ pc # "new"
     /\ call.qualities = "False"
     /\ ResolvesToFastq) =>
        pc = "error" /\ error.type = "ValueError"

\* FASTQ in capitals and no qualities: a FASTQ formatter is returned
C13_Witness ==
    /\ reader = "get_format"
    /\ pc = "made"
    /\ call.fileformat = <<"F", "A", "S", "T", "Q">>
    /\ call.qualities = "False"
    /\ obj = "FastqFormat"

\* the .txt names whose stem ends in _sequence but for the letter case
SequenceStemsButForCase ==
    { <<"x", "_", "S", "E", "Q", "U", "E", "N", "C", "E", ".", "t", "x", "t">>,
      <<"x", "_", "S", "e", "q", "u", "e", "n", "c", "e", ".", "T", "X", "T", ".", "g", "z">> }

\* C14: guess_format_from_name, on a str or on an object with a name, tells
\* the format by the name left after a compression suffix is taken off,
\* without regard to letter case: fasta, fastq (also for a .txt file with a
\* stem ending in _sequence, in any letter case), sam, bam, and no format
\* for every other name.
C14_ExtensionTable ==
    (reader = "guess_format_from_name" /\ pc # "new") =>
        LET n == call.path.name
        IN  /\ n \in FastaNames => pc = "made" /\ obj = Fasta
            /\ n \in FastqNames \cup SequenceStemsButForCase => pc = "made" /\ obj = Fastq
            /\ n \in SamNames => pc = "made" /\ obj = Sam
            /\ n \in BamNames => pc = "made" /\ obj = Bam
            /\ n \notin Recognized \cup SequenceStemsButForCase =>
                   (pc = "made" => obj = None)

\* C14, as the code decides: the letter case is disregarded in the
\* extension alone; a .txt file tells fastq when its stem ends in _sequence
\* as written, in lower case, and tells no format when the stem ends in
\* _SEQUENCE or _Sequence.
C14_ExtensionTableStemAsWritten ==
    (reader = "guess_format_from_name" /\ pc # "new") =>
        LET n == call.path.name
        IN  /\ n \in FastaNames => pc = "made" /\ obj = Fasta
            /\ n \in FastqNames => pc = "made" /\ obj = Fastq
            /\ n \in SamNames => pc = "made" /\ obj = Sam
            /\ n \in BamNames => pc = "made" /\ obj = Bam
            /\ n \notin Recognized => (pc = "made" => obj = None)
            /\ n \in SequenceStemsButForCase =>
                   IF call.raise_on_failure
                   THEN pc = "error" /\ error.type = "UnknownFileType"
                   ELSE pc = "made" /\ obj = None

\* x_SEQUENCE.txt has been asked for and no format was told, while
\* x_sequence.TXT is among the names that tell fastq
C14_Witness ==
    /\ reader = "guess_format_from_name"
    /\ pc = "made"
    /\ call.path = Path("str", <<"x", "_", "S", "E", "Q", "U", "E", "N", "C", "E", ".", "t", "x", "t">>)
    /\ obj = None
    /\ <<"x", "_", "s", "e", "q", "u", "e", "n", "c", "e", ".", "T", "X", "T">> \in FastqNames

\* C15: when guess_format_from_name detects no format (extension not in the
\* table, no extension, empty name, object without a name) it returns None
\* without raising if raise_on_failure is false, and raises UnknownFileType
\* with the rejected extension if it is true; it raises no other error.
C15_NoneOrUnknownFileType ==
    (/\ reader = "guess_format_from_name"
     /\ pc # "new"
     /\ call.path.name \notin Recognized) =>
        IF call.raise_on_failure
        THEN /\ pc = "error"
             /\ error.type = "UnknownFileType"
             /\ error.args[2] = Lower(splitext_compressed(call.path.name).ext1)
        ELSE pc = "made" /\ obj = None

\* raise_on_failure on an object without a name: `ext` was never assigned
C15_Witness ==
    /\ reader = "guess_format_from_name"
    /\ pc = "error"
    /\ call.path = Path("file", None)
    /\ error = UnboundLocalError

-----------------------------------------------------------------------------
(* open_reader *)

\* A file argument: a str (a path), an open file object with its name and
\* the lines it still holds, or None.  id is the identity of a file object:
\* sys.stdin has the id 0, any other object an id above; two file arguments
\* of the same id are one object.
File(kind, n, lines) == [kind |-> kind, name |-> n, lines |-> lines, id |-> 1]

\* another open file object of the name and content of file
Another(file) == [file EXCEPT !.id = file.id + 1]

NoFile == File("None", None, <<>>)

\* STDOUT, the path "-", and sys.stdin as it stands before the first call
StdPath == File("str", <<"-">>, <<>>)

Stdin ==
    [File("file", <<"<", "s", "t", "d", "i", "n", ">">>, << <<">", "s", "\n">>, <<"A", "\n">> >>)
        EXCEPT !.id = 0]

\* `for line in file1`: a file object gives its lines, a str its characters
Iterate(file) ==
    IF file.kind = "str" THEN [k \in 1..Len(file.name) |-> <<file.name[k]>>]
    ELSE file.lines

\* FileWithPrependedLine(file, line)
Wrapped(file, line) ==
    [kind |-> "FileWithPrependedLine", name |-> None, lines |-> <<>>,
     first_line |-> PrependedLine(line), file |-> file]

\* What a call of open_reader or of a constructor comes to: the object
\* returned or the error raised, the paths opened with xopen on the way, in
\* order, and the number of lines taken from the input.
Returns(made, paths, taken) ==
    [error |-> NoError, reader |-> made, opened |-> paths, consumed |-> taken]

Raises(e, paths, taken) ==
    [error |-> e, reader |-> NoRecord, opened |-> paths, consumed |-> taken]

\* SequenceReader.__init__ and SAMReader.__init__, for the class cls: a str
\* is opened and the reader owns the file
SequenceReader(cls, path) ==
    Returns([class |-> cls, file |-> path, close_on_exit |-> path.kind = "str"],
            IF path.kind = "str" THEN <<path.name>> ELSE <<>>, 0)

RECURSIVE open_reader(_)

\* the lines s of a stream but for the first n
Remaining(s, n) == SubSeq(s, n + 1, Len(s))

\* the file argument is read from sys.stdin: it is the path '-', or the
\* object sys.stdin itself, whatever the name of the object
IsStdin(file) ==
    \/ file.kind = "str" /\ file.name = StdPath.name
    \/ file.kind = "file" /\ file.id = Stdin.id

\* the two file arguments are read from one stream: both are sys.stdin, or
\* one file object is given twice
SameStream(f1, f2) ==
    \/ IsStdin(f1) /\ IsStdin(f2)
    \/ f1.kind = "file" /\ f1 = f2

\* PairedSequenceReader.__init__: reader1, then reader2; stdin is what
\* sys.stdin holds at the call, and reader2 finds a stream it shares with
\* reader1 as reader1 left it
PairedSequenceReader(f1, f2, colorspace, format, stdin) ==
    LET arguments(f, lines) ==
            [file1 |-> f, file2 |-> NoFile, qualfile |-> NoFile,
             colorspace |-> colorspace, fileformat |-> format,
             interleaved |-> FALSE, single_input_read |-> "None", stdin |-> lines]
        r1 == open_reader(arguments(f1, stdin))
        left == IF IsStdin(f1) THEN Remaining(stdin, r1.consumed) ELSE stdin
        second == IF f2.kind = "file" /\ SameStream(f1, f2)
                  THEN [f2 EXCEPT !.lines = Remaining(f2.lines, r1.consumed)]
                  ELSE f2
        r2 == open_reader(arguments(second, left))
    IN  IF Raised(r1.error) THEN r1
        ELSE IF Raised(r2.error)
        THEN Raises(r2.error, r1.opened \o r2.opened, r1.consumed + r2.consumed)
        ELSE Returns([class |-> "PairedSequenceReader", reader1 |-> r1.reader,
                      reader2 |-> r2.reader],
                     r1.opened \o r2.opened, r1.consumed + r2.consumed)

\* InterleavedSequenceReader.__init__
InterleavedSequenceReader(path, colorspace, format, stdin) ==
    LET r == open_reader([file1 |-> path, file2 |-> NoFile, qualfile |-> NoFile,
                          colorspace |-> colorspace, fileformat |-> format,
                          interleaved |-> FALSE, single_input_read |-> "None",
                          stdin |-> stdin])
    IN  IF Raised(r.error) THEN r
        ELSE Returns([class |-> "InterleavedSequenceReader", reader |-> r.reader],
                     r.opened, r.consumed)

\* FastaQualReader.__init__ and ColorspaceFastaQualReader.__init__
FastaQualReader(cls, fastafile, qualfile) ==
    LET r1 == SequenceReader("FastaReader", fastafile)
        r2 == SequenceReader("FastaReader", qualfile)
    IN  Returns([class |-> cls, fastareader |-> r1.reader, qualreader |-> r2.reader],
                r1.opened \o r2.opened, 0)

\* paired_to_read1(reader), paired_to_read2(reader): a generator object
Projection(fn, made) ==
    IF Raised(made.error) THEN made
    ELSE Returns([class |-> fn, reader |-> made.reader], made.opened, made.consumed)

\* `for line in file1:` up to the break: the lines taken, the format told by
\* the first line that is no comment, and file1 with that line put back
Sniff(file) ==
    LET lines == Iterate(file)
        told == {k \in 1..Len(lines) : ~StartsWith(lines[k], "#")}
        k == CHOOSE n \in told : \A m \in told : n <= m
        f == FormatOfLine(lines[k])
    IN  IF told = {} THEN [file |-> file, fileformat |-> None, consumed |-> Len(lines)]
        ELSE [file |-> Wrapped(file, lines[k]),
              fileformat |-> IF f = "fasta" THEN Fasta ELSE IF f = "fastq" THEN Fastq ELSE None,
              consumed |-> k]

\* `if colorspace: raise ValueError(...)` for the formats sam and bam
ColorspaceRefused(f, colorspace) == f \in {Sam, Bam} /\ colorspace

\* `if fileformat is not None:` to the end: the reader of the format
Dispatch(file, colorspace, format, interleaved, single_input_read, stdin) ==
    LET f == Lower(format)
        class(plain) == IF colorspace THEN "Colorspace" \o plain ELSE plain
    IN  IF format = None THEN Raises(UnknownFileType(<<format>>), <<>>, 0)
        ELSE IF ColorspaceRefused(f, colorspace)
        THEN Raises(ValueError("SAM/BAM format is not currently supported for colorspace reads"),
                    <<>>, 0)
        ELSE IF f \in {Sam, Bam}
        THEN SequenceReader(IF interleaved THEN "PairedEndSAMReader"
                            ELSE IF single_input_read = "1" THEN "Read1SingleEndSAMReader"
                            ELSE IF single_input_read = "2" THEN "Read2SingleEndSAMReader"
                            ELSE "SingleEndSAMReader", file)
        ELSE IF interleaved
        THEN LET made == InterleavedSequenceReader(file, colorspace, f, stdin)
             IN  IF single_input_read = "1" THEN Projection("paired_to_read1", made)
                 ELSE IF single_input_read = "2" THEN Projection("paired_to_read2", made)
                 ELSE made
        ELSE IF f = Fasta THEN SequenceReader(class("FastaReader"), file)
        ELSE IF f = Fastq THEN SequenceReader(class("FastqReader"), file)
        ELSE IF f = SraFastq /\ colorspace THEN SequenceReader("SRAColorspaceFastqReader", file)
        ELSE Raises(UnknownFileType(<<f>>), <<>>, 0)

\* open_reader(file1, file2, qualfile, colorspace, fileformat, interleaved,
\* single_input_read), on the record a of its arguments and of the lines
\* sys.stdin holds at the call
open_reader(a) ==
    IF a.interleaved /\ (a.file2 # NoFile \/ a.qualfile # NoFile)
    THEN Raises(ValueError("When interleaved is set, file2 and qualfile must be None"), <<>>, 0)
    ELSE IF a.file2 # NoFile /\ a.qualfile # NoFile
    THEN Raises(ValueError("Setting both file2 and qualfile is not supported"), <<>>, 0)
    ELSE IF a.file2 # NoFile
    THEN PairedSequenceReader(a.file1, a.file2, a.colorspace, a.fileformat, a.stdin)
    ELSE IF a.qualfile # NoFile
    THEN FastaQualReader(IF a.colorspace THEN "ColorspaceFastaQualReader" ELSE "FastaQualReader",
                         a.file1, a.qualfile)
    ELSE LET guessed == IF a.fileformat = None /\ a.file1 # StdPath
                        THEN guess_format_from_name(a.file1, FALSE).value
                        ELSE a.fileformat
             sniffed == IF guessed = None
                        THEN Sniff(IF a.file1 = StdPath
                                   THEN [Stdin EXCEPT !.lines = a.stdin]
                                   ELSE a.file1)
                        ELSE [file |-> a.file1, fileformat |-> guessed, consumed |-> 0]
             left == IF IsStdin(a.file1) THEN Remaining(a.stdin, sniffed.consumed)
                     ELSE a.stdin
             made == Dispatch(sniffed.file, a.colorspace, sniffed.fileformat,
                              a.interleaved, a.single_input_read, left)
         IN  [made EXCEPT !.consumed = @ + sniffed.consumed]

\* the files open_reader is called on
InputPaths ==
    { File("str", n, <<>>) : n \in { <<"x", ".", "f", "a", "s", "t", "a">>, <<"x", ".", "f", "a", "s", "t", "q">>, <<"x", ".", "s", "a", "m">>, <<"x", ".", "x", "y", "z">>, <<">", "x">> } }

InputObjects ==
    { File("file", <<"h", ".", "f", "a">>, << <<">", "a", "\n">>, <<"A", "\n">> >>),
      File("file", <<"h", ".", "x", "y", "z">>, << <<"#", "c", "\n">>, <<">", "a", "\n">>, <<"A", "\n">> >>),
      File("file", <<"h", ".", "x", "y", "z">>, << <<"#", "c", "\n">> >>),
      File("file", None, << <<"@", "r", "\n">>, <<"A", "\n">>, <<"+", "\n">>, <<"!", "\n">> >>),
      File("file", None, << <<"A", "\n">> >>) }

SecondPaths == { File("str", n, <<>>) : n \in { <<"y", ".", "f", "a", "s", "t", "a">>, <<"y", ".", "f", "a", "s", "t", "q">>, <<"y", ".", "s", "a", "m">> } }

\* the second files open_reader is called on with the first file f1: a
\* path, '-', sys.stdin, and for a file object f1 the same object and
\* another of the same name and content
SecondFiles(f1) ==
    SecondPaths \cup {NoFile, StdPath, Stdin}
        \cup (IF f1.kind = "file" THEN {f1, Another(f1)} ELSE {})

QualPaths == { File("str", <<"x", ".", "q", "u", "a", "l">>, <<>>) }

ReaderFormats == { None, Fasta, Fastq, Sam, <<"B", "A", "M">>, SraFastq, <<"x", "y", "z">> }

\* What open_reader came to, with the use made of the reader since: how
\* often it has been closed, and the files closed so far.
InUse(made) ==
    [error |-> made.error, reader |-> made.reader, opened |-> made.opened,
     consumed |-> made.consumed, closes |-> 0, closed |-> <<>>]

\* open_reader(file1, file2, qualfile, colorspace, fileformat, interleaved,
\* single_input_read)
OpenReader ==
    /\ reader = "open_reader"
    /\ pc = "new"
    /\ LET made == open_reader(call)
       IN  /\ obj' = InUse(made)
           /\ error' = made.error
           /\ pc' = IF Raised(made.error) THEN "error" ELSE "open"
    /\ UNCHANGED <<reader, file1, file2, pos1, pos2, wrapVars, fastaVars, pairVars,
                   fileformat, observed, call, yielded>>

InitOpen ==
    /\ reader = "open_reader"
    /\ \E f1 \in InputPaths \cup InputObjects \cup {StdPath, Stdin} :
       \E f2 \in SecondFiles(f1), ql \in QualPaths \cup {NoFile},
          c \in BOOLEAN, f \in ReaderFormats, i \in BOOLEAN, s \in {"None", "1", "2"} :
          call = [file1 |-> f1, file2 |-> f2, qualfile |-> ql, colorspace |-> c,
                  fileformat |-> f, interleaved |-> i, single_input_read |-> s,
                  stdin |-> Stdin.lines]
    /\ BeforeCall

-----------------------------------------------------------------------------
(* Claims on open_reader *)

\* the format of the call is sam or bam: given in some letter case, or told
\* by the name of an input file
SamOrBamRequested ==
    IF call.fileformat # None THEN Lower(call.fileformat) \in {Sam, Bam}
    ELSE \/ call.file1.name \in { <<"x", ".", "s", "a", "m">> }
         \/ call.file2.name \in { <<"y", ".", "s", "a", "m">> }

\* the option combinations that are not valid
InvalidOptions ==
    \/ call.interleaved /\ call.file2 # NoFile
    \/ call.interleaved /\ call.qualfile # NoFile
    \/ call.file2 # NoFile /\ call.qualfile # NoFile
    \/ SamOrBamRequested /\ call.colorspace

\* C11: open_reader refuses every invalid option combination (interleaved
\* with a second file, interleaved with a quality file, a second file with a
\* quality file, sam or bam with colorspace) with a ValueError, before any
\* input is opened or read and without returning a reader.
C11_InvalidOptionsRefused ==
    (reader = "open_reader" /\ pc # "new" /\ InvalidOptions) =>
        /\ pc = "error"
        /\ error.type = "ValueError"
        /\ obj.opened = <<>>
        /\ obj.consumed = 0

\* colorspace with a FASTA first file and a SAM second file: the first file
\* has been opened when the ValueError is raised
C11_Witness ==
    /\ reader = "open_reader"
    /\ pc = "error"
    /\ error.type = "ValueError"
    /\ call.file1.name = <<"x", ".", "f", "a", "s", "t", "a">>
    /\ call.file2.name = <<"y", ".", "s", "a", "m">>
    /\ call.fileformat = None
    /\ call.colorspace
    /\ obj.opened = << <<"x", ".", "f", "a", "s", "t", "a">> >>

-----------------------------------------------------------------------------
(* close() of the readers *)

ProjectionClasses == {"paired_to_read1", "paired_to_read2"}

\* close() on a reader object: the object after the call and the names of
\* the files whose close() it called, in order.
\*   SequenceReader.close, SAMReader.close: the file is closed if the
\*     reader opened it and still holds it, and _file becomes None;
\*   FastaQualReader.close, PairedSequenceReader.close: both readers;
\*   InterleavedSequenceReader.close: its reader;
\*   a generator (paired_to_read1, paired_to_read2): close() ends the
\*     generator and does not reach the reader it iterates over.
RECURSIVE CloseReader(_)
CloseReader(r) ==
    IF r.class \in ProjectionClasses THEN [reader |-> r, closed |-> <<>>]
    ELSE IF r.class = "PairedSequenceReader"
    THEN LET c1 == CloseReader(r.reader1)
             c2 == CloseReader(r.reader2)
         IN  [reader |-> [r EXCEPT !.reader1 = c1.reader, !.reader2 = c2.reader],
              closed |-> c1.closed \o c2.closed]
    ELSE IF r.class \in {"FastaQualReader", "ColorspaceFastaQualReader"}
    THEN LET c1 == CloseReader(r.fastareader)
             c2 == CloseReader(r.qualreader)
         IN  [reader |-> [r EXCEPT !.fastareader = c1.reader, !.qualreader = c2.reader],
              closed |-> c1.closed \o c2.closed]
    ELSE IF r.class = "InterleavedSequenceReader"
    THEN LET c == CloseReader(r.reader)
         IN  [reader |-> [r EXCEPT !.reader = c.reader], closed |-> c.closed]
    ELSE IF r.close_on_exit /\ r.file # NoFile
    THEN [reader |-> [r EXCEPT !.file = NoFile], closed |-> <<r.file.name>>]
    ELSE [reader |-> r, closed |-> <<>>]

\* reader.close(): none of the close methods looks at how far the reader
\* has been iterated
Close ==
    /\ reader = "open_reader"
    /\ pc = "open"
    /\ obj.closes < MaxCloses
    /\ LET c == CloseReader(obj.reader)
       IN  obj' = [obj EXCEPT !.reader = c.reader, !.closed = @ \o c.closed,
                              !.closes = @ + 1]
    /\ UNCHANGED <<reader, pc, file1, file2, pos1, pos2, wrapVars, fastaVars, pairVars,
                   fileformat, observed, call, yielded, error>>

NextOpen ==
    \/ OpenReader
    \/ Close

SpecOpen == InitOpen /\ [][NextOpen]_vars

\* the number of times p occurs in s
Count(s, p) == Cardinality({k \in 1..Len(s) : s[k] = p})

\* C16: every reader open_reader returns has a close() that can be called
\* any number of times, before, during or after iteration: the first call
\* closes each file the reader opened on construction, each exactly once (a
\* paired reader closes the files of both its readers), and a later call
\* closes nothing more.
C16_CloseReleasesOnce ==
    (reader = "open_reader" /\ pc = "open") =>
        /\ obj.closes = 0 => obj.closed = <<>>
        /\ obj.closes >= 1 =>
              /\ \A k \in 1..Len(obj.opened) : Count(obj.closed, obj.opened[k]) = 1
              /\ Len(obj.closed) = Len(obj.opened)

\* the first mates of an interleaved file, closed twice: the file opened
\* on construction was never closed
C16_Witness ==
    /\ reader = "open_reader"
    /\ pc = "open"
    /\ obj.reader.class = "paired_to_read1"
    /\ obj.closes = 2
    /\ obj.opened = << <<"x", ".", "f", "a", "s", "t", "a">> >>
    /\ obj.closed = <<>>

-----------------------------------------------------------------------------
(* Iterating a reader a second time *)

MaxRestarts == 1

\* iter(reader) again after the traversal has ended: FastaReader.__iter__ is
\* a generator function, so it starts afresh (`name = None`, `seq = []`,
\* enumerate() from 0) on the same self._file, which is at its end; so is
\* FileWithPrependedLine.__iter__, which yields first_line again before it
\* turns to the wrapped file
IterAgain ==
    /\ reader = "FastaReader"
    /\ pc = "done"
    /\ iterations < MaxRestarts
    /\ iterations' = iterations + 1
    /\ delivered' = FALSE
    /\ name' = None
    /\ seq' = <<>>
    /\ idx' = 0
    /\ pc' = "iter"
    /\ UNCHANGED <<reader, file1, file2, pos1, pos2, first_line, delimiter,
                   pairVars, fileformat, observed, ctorVars, yielded, error>>

\* a FastaReader on an open file, or open_reader on a file whose content
\* tells the format, iterated to its end and then again
InitRestart == InitFasta \/ InitDetect

NextRestart ==
    \/ SniffComment
    \/ SniffLine
    \/ SniffEnd
    \/ FastaReadLine
    \/ FastaResume
    \/ FastaEnd
    \/ FastaReturn
    \/ IterAgain

SpecRestart == InitRestart /\ [][NextRestart]_vars

\* C17: a reader is non-restartable: once it has been iterated to its end,
\* iterating it again yields no record, so no record is delivered more than
\* once; this holds also for a reader that open_reader made from the content
\* of the file, whose first line was pushed back in front of the stream.
C17_NonRestartable ==
    [][(reader = "FastaReader" /\ iterations >= 1) => yielded' = yielded]_vars

\* a reader made from the content of the file has, on its second pass,
\* yielded the record of its first pass once more
C17_Witness ==
    /\ reader = "FastaReader"
    /\ first_line # None
    /\ iterations = 1
    /\ pc = "done"
    /\ Len(yielded) = 2
    /\ yielded[2] = yielded[1]

\* a reader on a file it was handed yields nothing on its second pass
C17_PlainFileWitness ==
    /\ reader = "FastaReader"
    /\ first_line = None
    /\ iterations = 1
    /\ pc = "done"
    /\ Len(yielded) = 1

-----------------------------------------------------------------------------
(* PairedEndSAMReader *)

MaxAlignments == 4

AtroposError(m, a) == [type |-> "AtroposError", msg |-> m, args |-> a]

AssertionError == [type |-> "AssertionError", msg |-> "", args |-> <<>>]

\* the message is passed unformatted, the two names as further arguments
ConsecutiveMessage ==
    "Consecutive reads {}, {} in paired-end SAM/BAM file do not have the same name; make sure your file is name-sorted and does not contain any secondary/supplementary alignments."

\* an alignment record, by the attributes the readers use
Alignment(n, r1, r2, s, q) ==
    [query_name |-> n, is_read1 |-> r1, is_read2 |-> r2,
     query_sequence |-> s, query_qualities |-> q]

\* ''.join(chr(33 + q) for q in read.query_qualities)
QualityString(q) == [k \in 1..Len(q) |-> Chr(33 + q[k])]

\* SAMReader._as_sequence
AsSequence(read) ==
    Sequence(read.query_name, read.query_sequence,
             QualityString(read.query_qualities), <<>>).obj

\* the records at an odd place of the stream read A with quality 0, those at
\* an even place C with quality 40: the bases tell where a record stood
AlignmentAt(k) ==
    { Alignment(n, r1, r2,
                IF k % 2 = 1 THEN <<"A">> ELSE <<"C">>,
                IF k % 2 = 1 THEN <<0>> ELSE <<40>>) :
        n \in {<<"r">>, <<"s">>}, r1 \in BOOLEAN, r2 \in BOOLEAN }

RECURSIVE AlignmentStreams(_)
AlignmentStreams(n) ==
    IF n = 0 THEN {<<>>}
    ELSE LET shorter == AlignmentStreams(n - 1)
         IN  shorter \cup { Append(s, a) : s \in {t \in shorter : Len(t) = n - 1},
                                            a \in AlignmentAt(n) }

\* `assert c`: raises unless c holds; compiled out when the interpreter runs
\* with -O (call.assertions is FALSE)
AssertFails(c) == call.assertions /\ ~c

\* the order in which the pair is yielded
PairOrder(reads) ==
    IF reads[1].is_read1 THEN reads ELSE <<reads[2], reads[1]>>

\* the assertion on the second record of the two
PairAsserted(reads) ==
    IF reads[1].is_read1 THEN reads[2].is_read2 ELSE reads[2].is_read1

\* one turn of `for reads in zip(sam, sam)`
SamPair ==
    /\ reader = "PairedEndSAMReader"
    /\ pc = "iter"
    /\ pos1 + 2 <= Len(file1)
    /\ LET reads == <<file1[pos1 + 1], file1[pos1 + 2]>>
       IN  IF reads[1].query_name # reads[2].query_name
           THEN /\ error' = AtroposError(ConsecutiveMessage,
                                         <<reads[1].query_name, reads[2].query_name>>)
                /\ pc' = "error"
                /\ yielded' = yielded
           ELSE IF AssertFails(PairAsserted(reads))
           THEN /\ error' = AssertionError
                /\ pc' = "error"
                /\ yielded' = yielded
           ELSE /\ yielded' = Append(yielded, <<AsSequence(PairOrder(reads)[1]),
                                                AsSequence(PairOrder(reads)[2])>>)
                /\ UNCHANGED <<pc, error>>
    /\ pos1' = pos1 + 2
    /\ UNCHANGED <<reader, file1, file2, pos2, wrapVars, fastaVars, pairVars,
                   fileformat, observed, ctorVars>>

SamEndStrict ==
    /\ reader = "PairedEndSAMReader"
    /\ pc = "iter"
    /\ pos1 + 2 > Len(file1)
    /\ pos1' = Len(file1)
    /\ error' = IF pos1 < Len(file1) THEN NoPartner ELSE NoError
    /\ pc' = IF pos1 < Len(file1) THEN "error" ELSE "done"
    /\ UNCHANGED <<reader, file1, file2, pos2, wrapVars, fastaVars, pairVars,
                   fileformat, observed, ctorVars, yielded>>

\* zip() ends when either next(sam) finds the stream at its end: a last
\* record without a partner has been taken from the stream by then
SamEnd ==
    /\ reader = "PairedEndSAMReader"
    /\ pc = "iter"
    /\ pos1 + 2 > Len(file1)
    /\ pos1' = Len(file1)
    /\ pc' = "done"
    /\ UNCHANGED <<reader, file1, file2, pos2, wrapVars, fastaVars, pairVars,
                   fileformat, observed, ctorVars, yielded, error>>

\* PairedEndSAMReader._iter(sam) on a stream of alignment records
InitSam ==
    /\ reader = "PairedEndSAMReader"
    /\ pc = "iter"
    /\ file1 \in AlignmentStreams(MaxAlignments)
    /\ call \in {[assertions |-> b] : b \in BOOLEAN}
    /\ file2 = <<>>
    /\ delimiter = <<>>
    /\ pos1 = 0
    /\ pos2 = 0
    /\ first_line = None
    /\ delivered = FALSE
    /\ iterations = 0
    /\ name = None
    /\ seq = <<>>
    /\ idx = 0
    /\ read1 = NoRecord
    /\ read2 = NoRecord
    /\ calls1 = 0
    /\ calls2 = 0
    /\ fileformat = NoFormat
    /\ observed = <<>>
    /\ obj = NoRecord
    /\ yielded = <<>>
    /\ error = NoError

NextSam ==
    \/ SamPair
    \/ SamEnd

SpecSam == InitSam /\ [][NextSam]_vars

\* the k-th two records of the stream
PairAt(k) == <<file1[2 * k - 1], file1[2 * k]>>

\* the number of pairs of records taken from the stream
PairsPulled == pos1 \div 2

\* the pair holds a as its first-of-pair and b as its second-of-pair
FirstThenSecond(pair, a, b) ==
    /\ a.is_read1
    /\ b.is_read2
    /\ pair = <<AsSequence(a), AsSequence(b)>>

\* C18: PairedEndSAMReader takes the records of the stream two at a time; for
\* each two consecutive records it raises a fatal error naming both if their
\* query names differ, and otherwise yields them as one pair in which the
\* record flagged first-of-pair comes first and the record flagged
\* second-of-pair comes second, whatever their order on the stream.
C18_PairsInMateOrder ==
    reader = "PairedEndSAMReader" =>
        \A k \in 1..PairsPulled :
            LET reads == PairAt(k)
            IN  IF reads[1].query_name # reads[2].query_name
                THEN /\ k = PairsPulled
                     /\ pc = "error"
                     /\ error.type = "AtroposError"
                     /\ error.args = <<reads[1].query_name, reads[2].query_name>>
                     /\ Len(yielded) = k - 1
                ELSE /\ Len(yielded) >= k
                     /\ \/ FirstThenSecond(yielded[k], reads[1], reads[2])
                        \/ FirstThenSecond(yielded[k], reads[2], reads[1])

\* two records of one name, the first flagged neither first nor second of
\* its pair, the second flagged first: yielded as a pair, second record first
C18_Witness ==
    /\ reader = "PairedEndSAMReader"
    /\ call.assertions
    /\ pc = "done"
    /\ Len(file1) = 2
    /\ ~file1[1].is_read1 /\ ~file1[1].is_read2
    /\ file1[2].is_read1 /\ ~file1[2].is_read2
    /\ Len(yielded) = 1
    /\ yielded[1][1].sequence = <<"C">>

-----------------------------------------------------------------------------
(* FastqFormat and ColorspaceFastqFormat *)

\* FastqFormat.format_entry(name, sequence, qualities, name2)
FastqFormatEntry(n, s, q, n2) ==
    <<"@">> \o n \o <<"\n">> \o s \o <<"\n", "+">> \o n2 \o <<"\n">> \o q \o <<"\n">>

\* FastqFormat.format(read)
FastqFormat(read) ==
    FastqFormatEntry(read.name, read.sequence, read.qualities, read.name2)

\* ColorspaceFastqFormat.format(read): name2 is left to its default, ""
ColorspaceFastqFormat(read) ==
    FastqFormatEntry(read.name, read.primer \o read.sequence, read.qualities, <<>>)

\* the four fields of a FASTQ record of the input
FastqEntry(n, s, q, n2) == [name |-> n, sequence |-> s, qualities |-> q, name2 |-> n2]

\* records as long in qualities as in bases
FastqEntries ==
    { e \in [name : {<<"r">>}, sequence : SeqsUpTo({"A", "C"}, MaxSeqLen),
             qualities : QualityStrings, name2 : SecondHeaders] :
        Len(e.qualities) = Len(e.sequence) }

\* colorspace records: a primer base, then as many colors as qualities
ColorspaceFastqEntries ==
    { FastqEntry(e.name, <<"A">> \o e.sequence, e.qualities, e.name2) :
        e \in { d \in [name : {<<"r">>}, sequence : SeqsUpTo({"0", "1"}, MaxSeqLen),
                       qualities : QualityStrings, name2 : SecondHeaders] :
                  Len(d.qualities) = Len(d.sequence) } }

\* the reader makes the record: sequence_class(name, sequence, qualities, name2)
ReadFastqEntry ==
    /\ reader \in {"FastqFormat", "ColorspaceFastqFormat"}
    /\ pc = "new"
    /\ LET made == IF reader = "FastqFormat"
                   THEN Sequence(call.name, call.sequence, call.qualities, call.name2)
                   ELSE ColorspaceSequence(call.name, call.sequence, call.qualities,
                                           None, call.name2)
       IN  /\ read1' = made.obj
           /\ error' = made.error
           /\ pc' = IF Raised(made.error) THEN "error" ELSE "read"
    /\ UNCHANGED <<reader, file1, file2, pos1, pos2, wrapVars, fastaVars,
                   read2, calls1, calls2, fileformat, observed, ctorVars, yielded>>

\* seq_format.format(read1)
FormatFastq ==
    /\ reader \in {"FastqFormat", "ColorspaceFastqFormat"}
    /\ pc = "read"
    /\ yielded' = Append(yielded, IF reader = "FastqFormat"
                                  THEN FastqFormat(read1)
                                  ELSE ColorspaceFastqFormat(read1))
    /\ pc' = "made"
    /\ UNCHANGED <<reader, file1, file2, pos1, pos2, wrapVars, fastaVars, pairVars,
                   fileformat, observed, ctorVars, error>>

\* the variables a formatter does not use
BeforeFormat ==
    /\ file2 = <<>>
    /\ pos1 = 0
    /\ pos2 = 0
    /\ first_line = None
    /\ delivered = FALSE
    /\ iterations = 0
    /\ name = None
    /\ seq = <<>>
    /\ idx = 0
    /\ read1 = NoRecord
    /\ read2 = NoRecord
    /\ calls1 = 0
    /\ calls2 = 0
    /\ fileformat = NoFormat
    /\ observed = <<>>
    /\ obj = NoRecord
    /\ yielded = <<>>
    /\ error = NoError

\* a FASTQ record of the input, about to be read and written again
InitFastqFormat ==
    /\ pc = "new"
    /\ file1 = <<>>
    /\ delimiter = <<>>
    /\ \/ reader = "FastqFormat" /\ call \in FastqEntries
       \/ reader = "ColorspaceFastqFormat" /\ call \in ColorspaceFastqEntries
    /\ BeforeFormat

NextFastqFormat ==
    \/ ReadFastqEntry
    \/ FormatFastq

SpecFastqFormat == InitFastqFormat /\ [][NextFastqFormat]_vars

\* the text cut after each line break, as a file delivers its lines
RECURSIVE SplitLines(_)
SplitLines(text) ==
    IF text = <<>> THEN <<>>
    ELSE LET breaks == {k \in 1..Len(text) : text[k] = "\n"}
             cut == IF breaks = {} THEN Len(text)
                    ELSE CHOOSE k \in breaks : \A j \in breaks : k <= j
         IN  <<SubSeq(text, 1, cut)>> \o SplitLines(SubSeq(text, cut + 1, Len(text)))

\* C19: for every FASTQ record, plain or colorspace, the text the formatter
\* makes of the record read is four lines, each ended by a line break: '@'
\* and the name, the sequence (with the primer in front for colorspace), '+'
\* and the second header (nothing after '+' if there is none), and the
\* qualities; all four fields are those of the input.
C19_FourFields ==
    (reader \in {"FastqFormat", "ColorspaceFastqFormat"} /\ pc = "made") =>
        SplitLines(yielded[1]) =
            << <<"@">> \o call.name \o <<"\n">>,
               call.sequence \o <<"\n">>,
               <<"+">> \o call.name2 \o <<"\n">>,
               call.qualities \o <<"\n">> >>

\* a colorspace record with a second header has been written without it
C19_Witness ==
    /\ reader = "ColorspaceFastqFormat"
    /\ pc = "made"
    /\ call.name2 = <<"r">>
    /\ call.sequence = <<"A", "0", "1">>
    /\ SplitLines(yielded[1])[3] = <<"+", "\n">>

\* a plain record with a second header has been written with it
C19_PlainWitness ==
    /\ reader = "FastqFormat"
    /\ pc = "made"
    /\ call.name2 = <<"r">>
    /\ call.sequence = <<"A", "C">>
    /\ SplitLines(yielded[1])[3] = <<"+", "r", "\n">>

-----------------------------------------------------------------------------
(* FastaFormat and ColorspaceFastaFormat: reading, writing, reading again *)

\* FastaFormat.format_entry(name, sequence) of a format made without a
\* line_length: text_wrapper is None and the sequence is written as it is
FastaFormatEntry(n, s) == <<">">> \o n \o <<"\n">> \o s \o <<"\n">>

\* FastaFormat.format(read)
FastaFormat(read) == FastaFormatEntry(read.name, read.sequence)

ColorspaceFastaFormatWithoutPrimer(read) == FastaFormatEntry(read.name, read.sequence)

\* ColorspaceFastaFormat.format(read)
ColorspaceFastaFormat(read) == FastaFormatEntry(read.name, read.primer \o read.sequence)

\* the records a traversal has made, and the error that ended it, if any
Traversal(records, e) == [records |-> records, error |-> e]

\* A generator of FastaReader.__iter__ or of ColorspaceFastaReader.__iter__:
\* its locals, what it has yielded and raised, and where it stands: at its
\* start, at the `yield` in the loop, at the last `yield`, done or in error.
FastaGenerator ==
    [name |-> None, seq |-> <<>>, i |-> 0, out |-> <<>>, error |-> NoError,
     at |-> "start"]

\* `self.sequence_class(name, self._delimiter.join(seq), None)`: Sequence
\* for FastaReader, ColorspaceSequence for ColorspaceFastaReader
SequenceClass(cls, n, s) ==
    IF cls = "FastaReader" THEN Sequence(n, s, None, <<>>)
    ELSE ColorspaceSequence(n, s, None, None, <<>>)

\* `yield self.sequence_class(...)`: the generator stops at the yield, or
\* the constructor raises through it
FastaEmit(cls, g, delim, at) ==
    LET made == SequenceClass(cls, g.name, Join(g.seq, delim))
    IN  IF Raised(made.error) THEN [g EXCEPT !.error = made.error, !.at = "error"]
        ELSE [g EXCEPT !.out = Append(@, made.obj), !.at = at]

\* the loop from the line after the g.i lines taken, up to the next yield,
\* the return or the exception
RECURSIVE FastaLoop(_, _, _, _)
FastaLoop(cls, g, lines, delim) ==
    IF g.i = Len(lines)
    THEN IF g.name # None THEN FastaEmit(cls, g, delim, "last")
         ELSE [g EXCEPT !.at = "done"]
    ELSE IF ClosesRecord(g, lines[g.i + 1])
    THEN FastaEmit(cls, [g EXCEPT !.i = @ + 1], delim, "yield")
    ELSE LET h == FastaLine(g, lines[g.i + 1], delim)
         IN  IF Raised(h.error) THEN [h EXCEPT !.at = "error"]
             ELSE FastaLoop(cls, h, lines, delim)

\* next() on the generator: after the yield in the loop it goes on with
\* `name = line[1:]; seq = []` for the header it is on, after the last yield
\* it returns
FastaNext(cls, g, lines, delim) ==
    IF g.at = "last" THEN [g EXCEPT !.at = "done"]
    ELSE IF g.at = "yield"
    THEN FastaLoop(cls, [g EXCEPT !.name = Rest(Strip(lines[g.i])), !.seq = <<>>],
                   lines, delim)
    ELSE FastaLoop(cls, g, lines, delim)

\* the text the formatter that matches the reader makes of the records
RECURSIVE WriteFasta(_, _)
WriteFasta(cls, records) ==
    IF records = <<>> THEN <<>>
    ELSE (IF cls = "FastaReader" THEN FastaFormat(Head(records))
          ELSE ColorspaceFastaFormat(Head(records)))
         \o WriteFasta(cls, Tail(records))

FastaReaders == {"FastaReader", "ColorspaceFastaReader"}

\* the generator of the reader of the input, as the variables hold it
InputGenerator ==
    [name |-> name, seq |-> seq, i |-> idx, out |-> yielded, error |-> error,
     at |-> IF pc = "new" THEN "start" ELSE pc]

\* next() on the reader of the input: one more record, the end of the
\* traversal or its error
ReadInput ==
    /\ reader \in FastaReaders
    /\ pc \in {"new", "yield", "last"}
    /\ LET g == FastaNext(reader, InputGenerator, file1, delimiter)
       IN  /\ name' = g.name
           /\ seq' = g.seq
           /\ idx' = g.i
           /\ pos1' = g.i
           /\ yielded' = g.out
           /\ error' = g.error
           /\ pc' = IF g.at = "done" THEN "read" ELSE g.at
    /\ UNCHANGED <<reader, file1, file2, pos2, wrapVars, delimiter, pairVars,
                   fileformat, observed, ctorVars>>

\* each record is formatted and the text is written to a file, on which a
\* reader of the same class and settings is made
WriteOutput ==
    /\ reader \in FastaReaders
    /\ pc = "read"
    /\ file2' = SplitLines(WriteFasta(reader, yielded))
    /\ obj' = FastaGenerator
    /\ pc' = "written"
    /\ UNCHANGED <<reader, file1, pos1, pos2, wrapVars, fastaVars, pairVars,
                   fileformat, observed, call, yielded, error>>

\* next() on the reader of the file written
ReadOutput ==
    /\ reader \in FastaReaders
    /\ pc = "written"
    /\ LET g == FastaNext(reader, obj, file2, delimiter)
       IN  /\ obj' = g
           /\ pos2' = g.i
           /\ pc' = IF g.at \in {"done", "error"} THEN "reread" ELSE "written"
    /\ UNCHANGED <<reader, file1, file2, pos1, wrapVars, fastaVars, pairVars,
                   fileformat, observed, call, yielded, error>>

\* Line contents of the files read: those of FastaBodies, a header without
\* a name and one whose name begins with a blank
RoundTripBodies == FastaBodies \cup { <<">">>, <<">", " ", "a">> }

\* a reader on an open text file, with or without keep_linebreaks
InitRoundTrip ==
    /\ reader \in FastaReaders
    /\ pc = "new"
    /\ file1 \in TextFiles(RoundTripBodies, MaxLines)
    /\ delimiter \in {<<>>, <<"\n">>}
    /\ call = NoRecord
    /\ BeforeFormat

NextRoundTrip ==
    \/ ReadInput
    \/ WriteOutput
    \/ ReadOutput

SpecRoundTrip == InitRoundTrip /\ [][NextRoundTrip]_vars

\* the names and the sequence content of the records of a FASTA file, as
\* its lines tell them (the lines of a sequence apart if the reader keeps
\* line breaks)
Content(f) == FastaRecords(f, delimiter)

\* what a record holds of the file: its name and its bases, with the primer
\* in front for a colorspace record
Held(cls, r) ==
    Record(r.name, IF cls = "FastaReader" THEN r.sequence ELSE r.primer \o r.sequence,
           None, <<>>)

\* C20: for every well-formed FASTA input, the text FastaFormat (without
\* line wrapping) makes of the records FastaReader yields has the sequence
\* content of the input, and FastaReader yields from that text the same
\* records, name and sequence, in the same order; so do the colorspace
\* reader and formatter, with primer and sequence.
C20_FastaRoundTrip ==
    (reader \in FastaReaders /\ pc = "reread") =>
        /\ Content(file2) = Content(file1)
        /\ obj.error = NoError
        /\ obj.out = yielded
        /\ \A k \in 1..Len(yielded) : Held(reader, yielded[k]) = Content(file1)[k]

\* a colorspace record whose header stands between blanks and whose
\* sequence is wrapped over two lines has been written and read again
C20_Witness ==
    /\ reader = "ColorspaceFastaReader"
    /\ pc = "reread"
    /\ file1 = << <<"chr(12)", ">", "b", " ", "\n">>, <<"A", "C", "\n">>, <<" ", "G">> >>
    /\ file2 = << <<">", "b", "\n">>, <<"A", "C", "G", "\n">> >>
    /\ Len(obj.out) = 1
    /\ obj.out[1].primer = <<"A">>
    /\ obj.out[1].sequence = <<"C", "G">>

-----------------------------------------------------------------------------
(* Claims on the format open_reader resolves *)

\* the inputs whose format open_reader is to resolve, in order
FormatInputs == <<call.file1>> \o (IF call.file2 # NoFile THEN <<call.file2>> ELSE <<>>)

\* the number of lines of a stream up to its first line that is no comment
LinesSniffed(lines) == Min(LeadingComments(lines) + 1, Len(lines))

\* the lines of the stream behind the k-th input when its format is looked
\* for: those of the file object, and for the path '-' those of standard
\* input; a stream the second input shares with the first has been sniffed
\* from before
StreamOf(k) ==
    LET file == FormatInputs[k]
        lines == IF file = StdPath THEN call.stdin ELSE file.lines
    IN  IF k = 2 /\ SameStream(call.file1, call.file2)
        THEN Remaining(lines, LinesSniffed(lines))
        ELSE lines

\* the format the first line that is no comment tells, None if there is no
\* such line or it begins with neither '>' nor '@'
ContentFormat(lines) ==
    LET told == {k \in 1..Len(lines) : ~StartsWith(lines[k], "#")}
        k == CHOOSE n \in told : \A m \in told : n <= m
    IN  IF told = {} THEN None
        ELSE IF StartsWith(lines[k], ">") THEN Fasta
        ELSE IF StartsWith(lines[k], "@") THEN Fastq
        ELSE None

\* the format of the k-th input of the call: the one asked for, else the
\* one the extension of its name tells, else the one its content tells
Resolution(k) ==
    LET file == FormatInputs[k]
    IN  IF call.fileformat # None THEN Lower(call.fileformat)
        ELSE IF file # StdPath /\ guess_format_from_name(file, FALSE).value # None
        THEN guess_format_from_name(file, FALSE).value
        ELSE ContentFormat(StreamOf(k))

\* the formats open_reader has a reader for
Supported(f) == f \in {Fasta, Fastq, Sam, Bam} \/ (f = SraFastq /\ call.colorspace)

\* the places of the inputs whose format is none open_reader has a reader for
Unresolved == {k \in 1..Len(FormatInputs) : ~Supported(Resolution(k))}

\* C21: open_reader returns a reader only when the format is resolved (by
\* the format asked for, by the extension, or by the content) to one of
\* fasta, fastq, sam, bam, or sra-fastq with colorspace; when a format
\* outside that set is asked for, when sra-fastq is asked for without
\* colorspace, and when neither the name nor the first line that is no
\* comment tells the format (an empty stream included), it raises
\* UnknownFileType naming the value it tried and returns no reader.
C21_ReaderOrUnknownFileType ==
    (reader = "open_reader" /\ pc \in {"open", "error"} /\ ~InvalidOptions) =>
        IF Unresolved = {}
        THEN error.type # "UnknownFileType"
        ELSE LET k == CHOOSE n \in Unresolved : \A m \in Unresolved : n <= m
             IN  /\ pc = "error"
                 /\ obj.reader = NoRecord
                 /\ error = UnknownFileType(<<Resolution(k)>>)

\* a path whose name tells no format and begins with '>': a FastaReader was
\* returned for it, with nothing read from the file of that name
C21_Witness ==
    /\ reader = "open_reader"
    /\ pc = "open"
    /\ call.file1 = File("str", <<">", "x">>, <<>>)
    /\ call.fileformat = None
    /\ call.file2 = NoFile
    /\ call.qualfile = NoFile
    /\ ~call.interleaved
    /\ obj.reader.class = "FastaReader"
    /\ obj.opened = <<>>

-----------------------------------------------------------------------------
(* SingleEndFormatter, InterleavedFormatter and PairedEndFormatter *)

AttributeError == [type |-> "AttributeError", msg |-> "'NoneType' object has no attribute 'name'", args |-> <<>>]

\* the reads handed to a formatter: records with qualities, of 0 to 2 bases
FormattedReads ==
    { Record(<<"r">>, <<>>, <<>>, <<>>),
      Record(<<"s">>, <<"A">>, <<"!">>, <<>>),
      Record(<<"t">>, <<"A", "C">>, <<"!", "I">>, <<"t">>) }

\* the second read when the caller passes none
NoRead == Record(None, None, None, None)

\* the keys of `result`: the names of the output files
Destinations == {"o1", "o2"}

\* seq_format.format(read) for the format of the wrapper
SeqFormat(format, read) ==
    IF format = "FastaFormat" THEN FastaFormat(read) ELSE FastqFormat(read)

\* SingleEndFormatter.__init__ and PairedEndFormatter.__init__ (file2 is
\* None but for the latter)
Formatter(cls, format, f1, f2) ==
    [class |-> cls, seq_format |-> format, file1 |-> f1, file2 |-> f2,
     written |-> 0, read1_bp |-> 0, read2_bp |-> 0]

\* result[file].append(text)
AppendTo(result, file, text) == [result EXCEPT ![file] = Append(@, text)]

InterleavedEntriesSwapped(format, r1, r2) == <<SeqFormat(format, r2), SeqFormat(format, r1)>>

\* `(self.seq_format.format(read1), self.seq_format.format(read2))`
InterleavedEntries(format, r1, r2) == <<SeqFormat(format, r1), SeqFormat(format, r2)>>

\* the call is recorded once it has returned
Completed(r1, r2) ==
    /\ observed' = Append(observed, <<r1, r2>>)
    /\ UNCHANGED <<pc, error>>

\* seq_format.format(None) raises before the counters are touched
Failed ==
    /\ error' = AttributeError
    /\ pc' = "error"
    /\ observed' = observed

\* SingleEndFormatter.format(result, read1, read2)
SingleEndFormat ==
    /\ reader = "SingleEndFormatter"
    /\ pc = "format"
    /\ Len(observed) < MaxReads
    /\ \E r1 \in FormattedReads, r2 \in FormattedReads \cup {NoRead} :
          /\ call' = [read1 |-> r1, read2 |-> r2]
          /\ yielded' = AppendTo(yielded, obj.file1, SeqFormat(obj.seq_format, r1))
          /\ obj' = [obj EXCEPT !.written = @ + 1,
                                !.read1_bp = @ + Len(r1.sequence)]
          /\ Completed(r1, r2)
    /\ UNCHANGED <<reader, file1, file2, pos1, pos2, wrapVars, fastaVars, pairVars,
                   fileformat>>

\* InterleavedFormatter.format(result, read1, read2)
InterleavedFormat ==
    /\ reader = "InterleavedFormatter"
    /\ pc = "format"
    /\ Len(observed) < MaxReads
    /\ \E r1 \in FormattedReads, r2 \in FormattedReads \cup {NoRead} :
          /\ call' = [read1 |-> r1, read2 |-> r2]
          /\ IF r2 = NoRead
             THEN /\ Failed
                  /\ UNCHANGED <<yielded, obj>>
             ELSE /\ yielded' = [yielded EXCEPT ![obj.file1] =
                                    @ \o InterleavedEntries(obj.seq_format, r1, r2)]
                  /\ obj' = [obj EXCEPT !.written = @ + 1,
                                        !.read1_bp = @ + Len(r1.sequence),
                                        !.read2_bp = @ + Len(r2.sequence)]
                  /\ Completed(r1, r2)
    /\ UNCHANGED <<reader, file1, file2, pos1, pos2, wrapVars, fastaVars, pairVars,
                   fileformat>>

\* PairedEndFormatter.format(result, read1, read2): read1 has been appended
\* when formatting read2 raises
PairedEndFormat ==
    /\ reader = "PairedEndFormatter"
    /\ pc = "format"
    /\ Len(observed) < MaxReads
    /\ \E r1 \in FormattedReads, r2 \in FormattedReads \cup {NoRead} :
          /\ call' = [read1 |-> r1, read2 |-> r2]
          /\ IF r2 = NoRead
             THEN /\ Failed
                  /\ yielded' = AppendTo(yielded, obj.file1, SeqFormat(obj.seq_format, r1))
                  /\ obj' = obj
             ELSE /\ yielded' = AppendTo(AppendTo(yielded, obj.file1,
                                                  SeqFormat(obj.seq_format, r1)),
                                         obj.file2, SeqFormat(obj.seq_format, r2))
                  /\ obj' = [obj EXCEPT !.written = @ + 1,
                                        !.read1_bp = @ + Len(r1.sequence),
                                        !.read2_bp = @ + Len(r2.sequence)]
                  /\ Completed(r1, r2)
    /\ UNCHANGED <<reader, file1, file2, pos1, pos2, wrapVars, fastaVars, pairVars,
                   fileformat>>

\* a wrapper as create_seq_formatter makes it, and an empty `result`
InitFormatter ==
    /\ pc = "format"
    /\ \E format \in {"FastaFormat", "FastqFormat"} :
          \/ /\ reader = "SingleEndFormatter"
             /\ obj = Formatter("SingleEndFormatter", format, "o1", "None")
          \/ /\ reader = "InterleavedFormatter"
             /\ obj = Formatter("InterleavedFormatter", format, "o1", "None")
          \/ /\ reader = "PairedEndFormatter"
             /\ obj \in {Formatter("PairedEndFormatter", format, "o1", f2) : f2 \in Destinations}
    /\ yielded = [d \in Destinations |-> <<>>]
    /\ call = NoRecord
    /\ file1 = <<>>
    /\ file2 = <<>>
    /\ delimiter = <<>>
    /\ pos1 = 0
    /\ pos2 = 0
    /\ first_line = None
    /\ delivered = FALSE
    /\ iterations = 0
    /\ name = None
    /\ seq = <<>>
    /\ idx = 0
    /\ read1 = NoRecord
    /\ read2 = NoRecord
    /\ calls1 = 0
    /\ calls2 = 0
    /\ fileformat = NoFormat
    /\ observed = <<>>
    /\ error = NoError

NextFormatter ==
    \/ SingleEndFormat
    \/ InterleavedFormat
    \/ PairedEndFormat

SpecFormatter == InitFormatter /\ [][NextFormatter]_vars

\* the bases of the mates at place m (1 or 2) of the first n calls
RECURSIVE BasesOf(_, _)
BasesOf(m, n) ==
    IF n = 0 THEN 0 ELSE BasesOf(m, n - 1) + Len(observed[n][m].sequence)

\* the text of the mate at place m of call k
Rendered(k, m) == SeqFormat(obj.seq_format, observed[k][m])

\* C22: after any sequence of completed format calls on a wrapper, written
\* is the number of calls and read1_bp (read2_bp) is the sum of the lengths
\* of the first (second) mates formatted; the single-end wrapper has
\* appended one text per call to its one destination and read2_bp is 0; the
\* paired-end wrapper holds in each of its two destinations as many entries
\* as written, mate 1 in file 1 and mate 2 in file 2; the interleaved
\* wrapper has appended read1 then read2 to its one destination on every
\* call (twice written entries, the mates alternating).
C22_FormatterCounts ==
    (reader \in {"SingleEndFormatter", "InterleavedFormatter", "PairedEndFormatter"}
        /\ pc = "format") =>
        LET n == Len(observed)
        IN  /\ obj.written = n
            /\ obj.read1_bp = BasesOf(1, n)
            /\ reader = "SingleEndFormatter" =>
                  /\ obj.read2_bp = 0
                  /\ yielded[obj.file1] = [k \in 1..n |-> Rendered(k, 1)]
                  /\ yielded["o2"] = <<>>
            /\ reader = "PairedEndFormatter" =>
                  /\ obj.read2_bp = BasesOf(2, n)
                  /\ obj.file1 # obj.file2 =>
                        /\ yielded[obj.file1] = [k \in 1..n |-> Rendered(k, 1)]
                        /\ yielded[obj.file2] = [k \in 1..n |-> Rendered(k, 2)]
            /\ reader = "InterleavedFormatter" =>
                  /\ obj.read2_bp = BasesOf(2, n)
                  /\ yielded[obj.file1] =
                        [j \in 1..(2 * n) |-> Rendered((j + 1) \div 2, 2 - (j % 2))]
                  /\ yielded["o2"] = <<>>

\* three pairs have been written interleaved, reads of different lengths
C22_Witness ==
    /\ reader = "InterleavedFormatter"
    /\ pc = "format"
    /\ obj.written = 3
    /\ obj.read1_bp = 3
    /\ obj.read2_bp = 5
    /\ Len(yielded["o1"]) = 6

-----------------------------------------------------------------------------
(* Claims on the order in which PairedSequenceReader reads its streams *)

\* stream 1 has ended and stream 2 has been asked whether it has ended too
EndChecked == pc \in {"done", "error"} /\ pos1 = Len(file1) /\ calls1 = pos1 + 1

\* C23: PairedSequenceReader takes from its two streams in turn, stream 1
\* first: at every point of a traversal the number of next() calls on
\* stream 1 less the number on stream 2 is 0 or 1; stream 2 is not asked
\* for the record of pair k before stream 1 has delivered its record of
\* pair k; and wherever the traversal stops (at its end, by a pairing
\* error, or because the caller stops asking) each stream has given at most
\* one record more than the pairs yielded.
C23_StrictAlternation ==
    reader = "PairedSequenceReader" =>
        /\ calls1 - calls2 \in {0, 1}
        /\ pos2 <= pos1 \/ (EndChecked /\ pos2 = pos1 + 1)
        /\ pc = "next2" => (calls1 = calls2 + 1 /\ pos1 = pos2 + 1 /\ read1 = file1[pos1])
        /\ pos1 - Len(yielded) \in {0, 1}
        /\ pos2 - Len(yielded) \in {0, 1}
        /\ pc = "next1" => (pos1 = Len(yielded) /\ pos2 = Len(yielded))

\* after two pairs stream 1 has ended and stream 2 had a third record: it
\* was taken, and the traversal has ended with an error
C23_Witness ==
    /\ reader = "PairedSequenceReader"
    /\ pc = "error"
    /\ Len(file1) = 2
    /\ Len(file2) = 3
    /\ Len(yielded) = 2
    /\ pos1 = 2
    /\ pos2 = 3
    /\ calls1 = 3
    /\ calls2 = 3

-----------------------------------------------------------------------------
(* Iterating the reader open_reader returns for paired input *)

\* what one next() on a reader comes to: the item yielded, if any, the
\* error raised, if any, and the number of records taken from the stream
Pulled(items, e, taken) == [items |-> items, error |-> e, pos |-> taken]

\* InterleavedSequenceReader.__iter__, one turn of `for read1 in itr`
PullInterleaved(stream, pos) ==
    IF pos = Len(stream) THEN Pulled(<<>>, NoError, pos)
    ELSE IF pos + 1 = Len(stream) THEN Pulled(<<>>, NoPartner, pos + 1)
    ELSE LET e == PairCheck(stream[pos + 1], stream[pos + 2],
                            "Reads are improperly paired. Name (first) does not match (second).")
         IN  IF Raised(e) THEN Pulled(<<>>, e, pos + 2)
             ELSE Pulled(<< <<stream[pos + 1], stream[pos + 2]>> >>, NoError, pos + 2)

\* PairedEndSAMReader._iter, one turn of `for reads in zip(sam, sam)`
PullSamPair(stream, pos) ==
    IF pos + 2 > Len(stream) THEN Pulled(<<>>, NoError, Len(stream))
    ELSE LET reads == <<stream[pos + 1], stream[pos + 2]>>
         IN  IF reads[1].query_name # reads[2].query_name
             THEN Pulled(<<>>, AtroposError(ConsecutiveMessage,
                                            <<reads[1].query_name, reads[2].query_name>>),
                         pos + 2)
             ELSE IF AssertFails(PairAsserted(reads))
             THEN Pulled(<<>>, AssertionError, pos + 2)
             ELSE Pulled(<< <<AsSequence(PairOrder(reads)[1]),
                              AsSequence(PairOrder(reads)[2])>> >>, NoError, pos + 2)

\* the SAM readers that yield single records: `for read in sam`, with
\* `if read.is_read1` or `if read.is_read2` for the readers of one mate
Selected(cls, read) ==
    IF cls = "Read1SingleEndSAMReader" THEN read.is_read1
    ELSE IF cls = "Read2SingleEndSAMReader" THEN read.is_read2
    ELSE TRUE

PullSam(cls, stream, pos) ==
    LET next == {k \in (pos + 1)..Len(stream) : Selected(cls, stream[k])}
        k == CHOOSE n \in next : \A m \in next : n <= m
    IN  IF next = {} THEN Pulled(<<>>, NoError, Len(stream))
        ELSE Pulled(<<AsSequence(stream[k])>>, NoError, k)

\* paired_to_read1 and paired_to_read2: `for read1, _ in reader: yield read1`
Mate(fn, pulled) ==
    IF pulled.items = <<>> THEN pulled
    ELSE [pulled EXCEPT !.items = << pulled.items[1][IF fn = "paired_to_read1" THEN 1 ELSE 2] >>]

\* next() on the reader r, the stream standing at pos
Pull(r, stream, pos) ==
    IF r.class \in {"paired_to_read1", "paired_to_read2"}
    THEN Mate(r.class, PullInterleaved(stream, pos))
    ELSE IF r.class = "InterleavedSequenceReader" THEN PullInterleaved(stream, pos)
    ELSE IF r.class = "PairedEndSAMReader" THEN PullSamPair(stream, pos)
    ELSE PullSam(r.class, stream, pos)

\* open_reader on the path of the stream
OpenSelected ==
    /\ reader = "open_reader"
    /\ pc = "new"
    /\ LET made == open_reader(call)
       IN  /\ obj' = InUse(made)
           /\ error' = made.error
           /\ pc' = IF Raised(made.error) THEN "error" ELSE "iter"
    /\ UNCHANGED <<reader, file1, file2, pos1, pos2, wrapVars, fastaVars, pairVars,
                   fileformat, observed, call, yielded>>

\* next() on the reader returned
NextItem ==
    /\ reader = "open_reader"
    /\ pc = "iter"
    /\ LET p == Pull(obj.reader, file1, pos1)
       IN  /\ yielded' = yielded \o p.items
           /\ error' = p.error
           /\ pos1' = p.pos
           /\ pc' = IF Raised(p.error) THEN "error"
                    ELSE IF p.items = <<>> THEN "done" ELSE "iter"
    /\ calls1' = calls1 + 1
    /\ UNCHANGED <<reader, file1, file2, pos2, wrapVars, fastaVars, read1, read2, calls2,
                   fileformat, observed, ctorVars>>

\* the arguments of the call: a path whose name tells the format
SelectArguments(n, i, s) ==
    [file1 |-> File("str", n, <<>>), file2 |-> NoFile, qualfile |-> NoFile,
     colorspace |-> FALSE, fileformat |-> None, interleaved |-> i,
     single_input_read |-> s, stdin |-> Stdin.lines, assertions |-> TRUE]

\* an interleaved FASTA file of up to MaxReads + 1 records, or a stream of up
\* to MaxReads alignment records, behind a path, with the mates to use
InitSelect ==
    /\ reader = "open_reader"
    /\ \E s \in {"None", "1", "2"} :
          \/ /\ call = SelectArguments(<<"x", ".", "f", "a", "s", "t", "a">>, TRUE, s)
             /\ \E n \in 0..(MaxReads + 1), j \in 1..2,
                   x \in {<<"a", "1">>, <<"b", "1">>}, y \in {<<"a", "2">>, <<>>} :
                   file1 = InterleavedFile(n, j, x, y)
          \/ /\ \E i \in BOOLEAN : call = SelectArguments(<<"x", ".", "s", "a", "m">>, i, s)
             /\ file1 \in AlignmentStreams(MaxReads)
    /\ pc = "new"
    /\ file2 = <<>>
    /\ delimiter = <<>>
    /\ pos1 = 0
    /\ pos2 = 0
    /\ first_line = None
    /\ delivered = FALSE
    /\ iterations = 0
    /\ name = None
    /\ seq = <<>>
    /\ idx = 0
    /\ read1 = NoRecord
    /\ read2 = NoRecord
    /\ calls1 = 0
    /\ calls2 = 0
    /\ fileformat = NoFormat
    /\ observed = <<>>
    /\ obj = NoRecord
    /\ yielded = <<>>
    /\ error = NoError

NextSelect ==
    \/ OpenSelected
    \/ NextItem

SpecSelect == InitSelect /\ [][NextSelect]_vars

\* the path names an alignment file
OnSam == call.file1.name = <<"x", ".", "s", "a", "m">>

\* the mates m (1 or 2) of the stream, in stream order: of an interleaved
\* file the records at the odd (even) places, of an alignment stream the
\* records flagged first (second) of their pair
Mates(m) ==
    IF OnSam
    THEN LET flagged == SelectSeq(file1, LAMBDA r : IF m = 1 THEN r.is_read1 ELSE r.is_read2)
         IN  [k \in 1..Len(flagged) |-> AsSequence(flagged[k])]
    ELSE [k \in 1..(Len(file1) \div 2) |-> file1[2 * k - 2 + m]]

\* the classes of reader whose items are pairs
PairReaders == {"InterleavedSequenceReader", "PairedEndSAMReader"}

\* what the pair reader of an interleaved file comes to from pos on
RECURSIVE PairRun(_, _)
PairRun(pos, pairs) ==
    LET p == PullInterleaved(file1, pos)
    IN  IF Raised(p.error) \/ p.items = <<>> THEN Traversal(pairs, p.error)
        ELSE PairRun(p.pos, pairs \o p.items)

\* both reads of the input are delivered: pair by pair, or one by one
BothDelivered ==
    IF obj.reader.class = "InterleavedSequenceReader"
    THEN \A k \in 1..Len(yielded) : yielded[k] = <<file1[2 * k - 1], file1[2 * k]>>
    ELSE IF obj.reader.class = "PairedEndSAMReader"
    THEN \A k \in 1..Len(yielded) :
            {yielded[k][1], yielded[k][2]} = {AsSequence(file1[2 * k - 1]), AsSequence(file1[2 * k])}
    ELSE /\ \A k \in 1..Len(yielded) : yielded[k] = AsSequence(file1[k])
         /\ pc = "done" => Len(yielded) = Len(file1)

\* C24: wherever open_reader succeeds on an interleaved FASTA or FASTQ
\* input or on a SAM or BAM input, single_input_read = 1 (2) makes the
\* reader returned yield single records, which are the first (second) mates
\* in stream order, and single_input_read unset makes it deliver both
\* reads; the projection of a pair reader to one mate yields one item for
\* each pair and fails where the pair reader fails.
C24_SingleInputRead ==
    (reader = "open_reader" /\ pc \in {"iter", "done", "error"} /\ obj.reader # NoRecord) =>
        /\ call.single_input_read = "None" => BothDelivered
        /\ call.single_input_read # "None" =>
              LET mates == Mates(IF call.single_input_read = "1" THEN 1 ELSE 2)
              IN  /\ obj.reader.class \notin PairReaders
                  /\ Len(yielded) <= Len(mates)
                  /\ \A k \in 1..Len(yielded) : yielded[k] = mates[k]
                  /\ pc = "done" => Len(yielded) = Len(mates)
        /\ obj.reader.class \in {"paired_to_read1", "paired_to_read2"} =>
              LET run == PairRun(0, <<>>)
              IN  /\ Len(yielded) <= Len(run.records)
                  /\ pc \in {"done", "error"} =>
                        (Len(yielded) = Len(run.records) /\ error = run.error)

\* the first mates of an alignment stream were asked for with interleaved
\* set: the reader has yielded a pair
C24_Witness ==
    /\ reader = "open_reader"
    /\ pc = "done"
    /\ OnSam
    /\ call.interleaved
    /\ call.single_input_read = "1"
    /\ obj.reader.class = "PairedEndSAMReader"
    /\ Len(file1) = 2
    /\ Len(yielded) = 1
    /\ yielded[1][1].sequence = <<"A">>
    /\ yielded[1][2].sequence = <<"C">>

-----------------------------------------------------------------------------
(* Claims on FASTA and QUAL files of different lengths *)

\* the pairs of records the two files have in common
CommonPairs == 1..Min(Len(FastaRecords(file1, <<>>)), Len(FastaRecords(file2, <<"\n">>)))

\* both files are FASTA-shaped, the names of each common pair are the same
\* and the quality values of each common pair are valid
NamesAndTokensGood ==
    /\ Orphans(file1) = {}
    /\ Orphans(file2) = {}
    /\ \A k \in CommonPairs :
          LET qu == FastaRecords(file2, <<"\n">>)[k]
              tokens == Split(qu.sequence)
          IN  /\ FastaRecords(file1, <<>>)[k].name = qu.name
              /\ \A t \in 1..Len(tokens) : GoodToken(tokens[t], TRUE)

\* each common pair has as many quality values as bases
LengthsFit ==
    \A k \in CommonPairs :
        Len(Split(FastaRecords(file2, <<"\n">>)[k].sequence))
            = Len(FastaRecords(file1, <<>>)[k].sequence)

\* the reader yields the common pairs and ends without an error
YieldsCommonPairs ==
    /\ pc # "error"
    /\ error = NoError
    /\ Len(yielded) <= Cardinality(CommonPairs)
    /\ pc = "done" => Len(yielded) = Cardinality(CommonPairs)

\* C25: FastaQualReader over a FASTA file of nf records and a QUAL file of
\* nq records, the names matching and the quality values valid, yields
\* min(nf, nq) records and then ends normally: the records one file has
\* more than the other raise no error.
C25_SurplusIgnored ==
    (reader = "FastaQualReader" /\ NamesAndTokensGood) => YieldsCommonPairs

\* C25 as the reader has it: over a FASTA file of nf records and a QUAL
\* file of nq records, the names matching, the quality values valid and as
\* many as the bases of their record, FastaQualReader yields min(nf, nq)
\* records and then ends normally.
C25_SurplusIgnoredWhereLengthsFit ==
    (reader = "FastaQualReader" /\ NamesAndTokensGood /\ LengthsFit) => YieldsCommonPairs

\* three FASTA records and one QUAL record: one record was yielded and the
\* traversal has ended, a second FASTA record taken
C25_Witness ==
    /\ reader = "FastaQualReader"
    /\ pc = "done"
    /\ NamesAndTokensGood
    /\ LengthsFit
    /\ Len(FastaRecords(file1, <<>>)) = 3
    /\ Len(FastaRecords(file2, <<"\n">>)) = 1
    /\ Len(yielded) = 1
    /\ calls1 = 2
    /\ calls2 = 2

-----------------------------------------------------------------------------
(* Claims on the number of pairs PairedEndSAMReader yields *)

\* the pairs of consecutive records of the stream
StreamPairs == 1..(Len(file1) \div 2)

\* the two records of each pair have the same name
ConsecutiveNamesMatch ==
    \A k \in StreamPairs : PairAt(k)[1].query_name = PairAt(k)[2].query_name

\* in each pair the first record is flagged first-of-pair and the second
\* second-of-pair, or the first is not flagged first-of-pair and the second is
FlagsFit ==
    \A k \in StreamPairs :
        \/ PairAt(k)[1].is_read1 /\ PairAt(k)[2].is_read2
        \/ ~PairAt(k)[1].is_read1 /\ PairAt(k)[2].is_read1

\* floor(n/2) pairs, the k-th made of the records 2k-1 and 2k, then the
\* end, a last record without partner taken and not yielded
YieldsStreamPairs ==
    /\ pc # "error"
    /\ error = NoError
    /\ Len(yielded) <= Cardinality(StreamPairs)
    /\ \A k \in 1..Len(yielded) :
          {yielded[k][1], yielded[k][2]} = {AsSequence(PairAt(k)[1]), AsSequence(PairAt(k)[2])}
    /\ pc = "done" => (Len(yielded) = Cardinality(StreamPairs) /\ pos1 = Len(file1))

\* C26: PairedEndSAMReader over a stream of n alignment records whose
\* consecutive names match yields floor(n/2) pairs, the k-th made of the
\* records 2k-1 and 2k, and then ends normally; for odd n the last record is
\* taken from the stream and dropped without an error.
C26_HalfTheRecords ==
    (reader = "PairedEndSAMReader" /\ ConsecutiveNamesMatch) => YieldsStreamPairs

\* C26 as the reader has it: the same, for streams in whose pairs the
\* flags are as the reader asserts them, or with assertions compiled out.
C26_HalfTheRecordsWhereFlagsFit ==
    (reader = "PairedEndSAMReader" /\ ConsecutiveNamesMatch
        /\ (FlagsFit \/ ~call.assertions)) => YieldsStreamPairs

\* three records, the first two a pair: one pair was yielded, the third
\* record was taken and the traversal has ended
C26_Witness ==
    /\ reader = "PairedEndSAMReader"
    /\ call.assertions
    /\ pc = "done"
    /\ Len(file1) = 3
    /\ ConsecutiveNamesMatch
    /\ FlagsFit
    /\ Len(yielded) = 1
    /\ pos1 = 3

-----------------------------------------------------------------------------
(* Claims on content detection against the explicit choice of FASTA *)

\* what FastaReader yields from the whole stream when the format is given
ExplicitFasta == FastaIter(file1, delimiter)

\* the first line of the stream that does not start with '#' starts with '>'
HeaderFirst ==
    /\ Significant(file1) # <<>>
    /\ StartsWith(Significant(file1)[1], ">")

\* open_reader returns a FastaReader, whose traversal yields the records of
\* the explicit reader and ends without an error
DetectedYieldsTheSame ==
    /\ pc # "error"
    /\ error = NoError
    /\ pc # "sniff" => (reader = "FastaReader" /\ fileformat = "fasta")
    /\ Len(yielded) <= Len(ExplicitFasta.out)
    /\ yielded = SubSeq(ExplicitFasta.out, 1, Len(yielded))
    /\ pc \in {"last", "done"} => yielded = ExplicitFasta.out

\* C27: for every line stream from which FastaReader, opened with the
\* format 'fasta' given, yields a sequence R of records without an error,
\* open_reader without a format and without a telling file name resolves to
\* fasta as well and yields the same R.
C27_DetectionRefinesFasta ==
    ~Raised(ExplicitFasta.error) => DetectedYieldsTheSame

\* C27 as the detection has it: the same, for the streams whose first line
\* not starting with '#' starts with '>'.
C27_DetectionRefinesFastaWhereHeaderFirst ==
    (~Raised(ExplicitFasta.error) /\ HeaderFirst) => DetectedYieldsTheSame

\* a stream of a comment and a record, detected as fasta and read to its
\* end: it has yielded the record of the explicit reader
C27_Witness ==
    /\ reader = "FastaReader"
    /\ pc = "done"
    /\ first_line # None
    /\ LeadingComments(file1) = 1
    /\ ~Raised(ExplicitFasta.error)
    /\ Len(ExplicitFasta.out) = 1
    /\ ExplicitFasta.out[1].sequence # <<>>
    /\ yielded = ExplicitFasta.out

-----------------------------------------------------------------------------

Init ==
    \/ InitFasta
    \/ InitDetect
    \/ InitPairing
    \/ InitColorspace
    \/ InitFastaQual
    \/ InitFormats
    \/ InitOpen
    \/ InitSam
    \/ InitFastqFormat
    \/ InitRoundTrip
    \/ InitFormatter
    \/ InitSelect

Next ==
    \/ NextFasta
    \/ NextDetect
    \/ NextPairing
    \/ NextColorspace
    \/ NextFastaQual
    \/ NextFormats
    \/ NextOpen
    \/ NextRestart
    \/ NextSam
    \/ NextFastqFormat
    \/ NextRoundTrip
    \/ NextFormatter
    \/ NextSelect

Spec == Init /\ [][Next]_vars

====
